---- MODULE Spec2Model ----
(***************************************************************************)
(* The grammar-driven verse generator of cyberpoet-node: the word selector *)
(* (WordSelector), the structure generator (StructureGenerator) and the    *)
(* line composer (PoetryEngine).                                           *)
(*                                                                         *)
(* A string is a sequence of characters.  A character is written as a      *)
(* TLA+ string holding one glyph: Latin letters and ASCII marks stand for  *)
(* themselves, a Chinese character is written by its pinyin ("qi" for 骑,  *)
(* "ma" for 马, "zhe" for 着, "de" for 得).  An optional argument          *)
(* (rhymeScheme?) is a set holding at most one string; {} is undefined.    *)
(***************************************************************************)
EXTENDS Integers, Sequences, FiniteSets, TLC

VARIABLES
    nouns,              \* DataService.nouns (loaded table)
    adjectives,         \* DataService.adjectives
    intransitiveVerbs,  \* DataService.intransitiveVerbs
    transitiveVerbs,    \* DataService.transitiveVerbs
    interjections,      \* DataService.interjections
    specialWords,       \* DataService.specialWords
    sentenceStructures, \* DataService.sentenceStructures
    lastOp,             \* the selector/store operation called last
    lastContext,        \* its WordSelectionContext
    lastWord,           \* outcome of the last selectWord call
    lastPool,           \* outcome of the last getWordsByPartOfSpeech call
    pc,                 \* where generatePoetry stands
    options,            \* PoetryGenerationOptions of the request
    lineIndex,          \* createStructure: line position being selected
    attempts,           \* selectQuietStructure/selectBoldStructure: attempts
    tempStructures,     \* createStructure: the selected base templates
    fallbacks,          \* line positions whose template is the fallback
    workingStructures,  \* createStructure's result
    lines,              \* generatePoetry: lines rendered so far
    error,              \* message of the Error that ended the request
    rhyme,              \* normalizeRhymeScheme: the caller's current string
    rhymeArgs,          \* normalizeRhymeScheme: arguments of the calls made
    config,             \* DataService.config: {} is null, {n} holds poemNumber n
    configFile,         \* poemNumber stored in config.json
    files,              \* poem files on disk: pairs <<path, content>>
    savePc,             \* savePoetry: where each call stands
    saveArgs,           \* savePoetry: <<poem.lines, title, outputPath>> of each call
    saveAt,             \* savePoetry: config.poemNumber read by each call
    saveResult,         \* savePoetry: the value each call resolved to
    saveOrder,          \* savePoetry: the calls in the order they ended
    instance,           \* DataService.instance: {} before the first getInstance
    returnedInstances,  \* the instances getInstance has returned
    cached,             \* DataService table fields: {} is null, {t} holds table t
    present,            \* the data files that exist
    reads,              \* reads of each data file since the last clearCache
    lastGet,            \* the last get: <<table, was cached, read the file, outcome>>
    cliArgs,            \* process.argv.slice(2)
    cliOptions,         \* main: the CliOptions parsed ({} before parsing)
    cliRequest,         \* runCommandMode: the options passed to generatePoetry
    now,                \* the clock: <<year, month (0-based), day of month>>
    ageInfo,            \* getPoetAge: the text returned (<<>> before the call)
    lineQuery,          \* shouldLineRhyme: <<lineIndex, totalLines>>
    lineAnswer,         \* shouldLineRhyme: {} before the call, then {its result}
    expandArgs,         \* processStructureElements: <<structure, needsRhyme>>
    expandResult,       \* processStructureElements: {} before the call, then {its result}
    renderArgs,         \* generateLine: <<base template, options>> (<<>>: no call)
    renderPc,           \* generateLine: where the call stands
    elementIndex,       \* generateLine: elementIndex
    renderLine,         \* generateLine: line
    examined,           \* generateLine: the indices read from structure.elements
    selectorCalls,      \* generateLine: <<index, tag>> of each selectWordForElement call
    warnings            \* generateLine: the elements console.warn was called with

tables == <<nouns, adjectives, intransitiveVerbs, transitiveVerbs, interjections,
            specialWords, sentenceStructures>>
selectorVars == <<lastOp, lastContext, lastWord, lastPool>>
engineVars == <<pc, options, lineIndex, attempts, tempStructures, fallbacks,
                workingStructures, lines, error>>
rhymeVars == <<rhyme, rhymeArgs>>
saveVars == <<config, configFile, files, savePc, saveArgs, saveAt, saveResult, saveOrder>>
cacheVars == <<instance, returnedInstances, cached, present, reads, lastGet>>
cliVars == <<cliArgs, cliOptions, cliRequest>>
ageVars == <<now, ageInfo>>
lineVars == <<lineQuery, lineAnswer>>
expandVars == <<expandArgs, expandResult>>
renderVars ==
    <<renderArgs, renderPc, elementIndex, renderLine, examined, selectorCalls, warnings>>
utilVars ==
    <<rhymeVars, saveVars, cacheVars, cliVars, ageVars, lineVars, expandVars, renderVars>>
\* What the calls of one service leave alone.
notRhymeVars == <<tables, selectorVars, engineVars, saveVars, cacheVars, cliVars, ageVars, lineVars,
      expandVars, renderVars>>
notSaveVars == <<tables, selectorVars, engineVars, rhymeVars, cacheVars, cliVars, ageVars, lineVars,
      expandVars, renderVars>>
notCacheVars == <<tables, selectorVars, engineVars, rhymeVars, cliVars, ageVars, lineVars,
                  expandVars, renderVars,
                  configFile, files, savePc, saveArgs, saveAt, saveResult, saveOrder>>
notCliVars == <<tables, selectorVars, engineVars, rhymeVars, saveVars, cacheVars, ageVars, lineVars,
      expandVars, renderVars>>
notAgeVars ==
    <<tables, selectorVars, engineVars, rhymeVars, saveVars, cacheVars, cliVars, lineVars,
      expandVars, renderVars>>
notLineVars ==
    <<tables, selectorVars, engineVars, rhymeVars, saveVars, cacheVars, cliVars, ageVars,
      expandVars, renderVars>>
notExpandVars ==
    <<tables, selectorVars, engineVars, rhymeVars, saveVars, cacheVars, cliVars, ageVars,
      lineVars, renderVars>>
notRenderVars ==
    <<tables, selectorVars, engineVars, rhymeVars, saveVars, cacheVars, cliVars, ageVars,
      lineVars, expandVars>>
vars == <<tables, selectorVars, engineVars, utilVars>>

----------------------------------------------------------------------------
(* Bounds of the model                                                     *)

MaxWords == 2
MaxStanzas == 3
MaxLines == 2
MaxPoemLines == 6
MaxRhymeLength == 3
MaxNormalizations == 2
MaxSaves == 3
MaxArgs == 3
LastYear == 2004
MaxTotalLines == 14
MaxSlots == 3

----------------------------------------------------------------------------
(* Strings                                                                 *)

EmptyString == <<>>

WhiteSpace == {" ", "u3000"}

LowerLetters == <<"a", "b", "c", "d", "e", "f", "g", "h", "i", "j", "k", "l", "m",
                  "n", "o", "p", "q", "r", "s", "t", "u", "v", "w", "x", "y", "z">>
UpperLetters == <<"A", "B", "C", "D", "E", "F", "G", "H", "I", "J", "K", "L", "M",
                  "N", "O", "P", "Q", "R", "S", "T", "U", "V", "W", "X", "Y", "Z">>

Range(s) == {s[i] : i \in 1..Len(s)}

\* String.prototype.toUpperCase / toLowerCase on one character: only cased
\* letters change.
charToUpperCase(c) ==
    IF \E k \in 1..Len(LowerLetters) : LowerLetters[k] = c
    THEN UpperLetters[CHOOSE k \in 1..Len(LowerLetters) : LowerLetters[k] = c]
    ELSE c

charToLowerCase(c) ==
    IF \E k \in 1..Len(UpperLetters) : UpperLetters[k] = c
    THEN LowerLetters[CHOOSE k \in 1..Len(UpperLetters) : UpperLetters[k] = c]
    ELSE c

toUpperCase(s) == [i \in 1..Len(s) |-> charToUpperCase(s[i])]
toLowerCase(s) == [i \in 1..Len(s) |-> charToLowerCase(s[i])]

\* String.prototype.includes for a one-character needle.
includes(s, c) == \E i \in 1..Len(s) : s[i] = c

\* String.prototype.indexOf for a one-character needle, 0-based; -1 when absent.
indexOf(s, c) ==
    IF includes(s, c)
    THEN (CHOOSE i \in 1..Len(s) : s[i] = c /\ \A j \in 1..(i - 1) : s[j] # c) - 1
    ELSE -1

\* String.prototype.substring(start, end) and substring(start), 0-based.
substring(s, start, end) == SubSeq(s, start + 1, end)
substringFrom(s, start) == SubSeq(s, start + 1, Len(s))

RECURSIVE trimStart(_)
trimStart(s) ==
    IF Len(s) > 0 /\ s[1] \in WhiteSpace THEN trimStart(Tail(s)) ELSE s

RECURSIVE trimEnd(_)
trimEnd(s) ==
    IF Len(s) > 0 /\ s[Len(s)] \in WhiteSpace
    THEN trimEnd(SubSeq(s, 1, Len(s) - 1))
    ELSE s

\* String.prototype.trim
trim(s) == trimEnd(trimStart(s))

\* Array.prototype.filter
filter(seq, Test(_)) == SelectSeq(seq, Test)

\* All sequences over S of length 0..n.
SeqUpTo(S, n) == UNION {[1..k -> S] : k \in 0..n}

----------------------------------------------------------------------------
(* Types (src/unnamed/part_000: PartOfSpeech, RhymeScheme, WordRecord)     *)

MM == <<"M", "M">>
MC == <<"M", "C">>
MR == <<"M", "R">>
DD == <<"D", "D">>
DI == <<"D", "I">>
DV == <<"D", "V">>
DO == <<"D", "O">>
DJ == <<"D", "J">>
XA == <<"X", "A">>
TT == <<"T", "T">>
SS == <<"S", "S">>

PartOfSpeech == {MM, MC, MR, DD, DI, DV, DO, DJ, XA, TT, SS}

Slash == "/"
Zhe == "zhe"
De == "de"

ShiJian == <<"shi", "jian">>
DiDian == <<"di", "dian">>
DiMing == <<"di", "ming">>
RenWu == <<"ren", "wu">>
RenMing == <<"ren", "ming">>

WordRecord(word, vowel, property) ==
    [word |-> word, vowel |-> vowel, property |-> property]

\* JavaScript truthiness of an optional string: undefined and '' are falsy.
Truthy(opt) == \E s \in opt : s # EmptyString

\* word.vowel === rhymeScheme
RhymeEq(vowel, rhymeScheme) == vowel \in rhymeScheme

----------------------------------------------------------------------------
(* Outcomes of a call: a returned value or a thrown Error.  The message of *)
(* the Error is named in ASCII; arg is the text interpolated into it.      *)

Return(v) == [error |-> "", threw |-> FALSE, value |-> v, arg |-> EmptyString]
Throw(msg, arg) == [error |-> msg, threw |-> TRUE, value |-> EmptyString, arg |-> arg]

NoRecord == WordRecord(EmptyString, EmptyString, EmptyString)
ThrowRecord(msg) == [error |-> msg, threw |-> TRUE, value |-> NoRecord, arg |-> EmptyString]

\* The caller's continuation F applied to every returned value; a throw
\* propagates unchanged.
Then(outcomes, F(_)) ==
    {IF o.threw THEN Throw(o.error, o.arg) ELSE Return(F(o.value)) : o \in outcomes}

----------------------------------------------------------------------------
(* The tables read from src/data/*.json.  They are written by               *)
(* scripts/convert-dbf-to-json.ts from fixed-width DBF records, so every    *)
(* string field is trimmed and a missing field is ''.  A word holds the     *)
(* separator '/' at most once (stem/complement).                            *)

cleanStringNoTrim(value) == value

\* convertDbfToJson: a string value of a record is trimmed.
cleanString(value) == trim(value)

\* convertDbfToJson: every field of a record is cleaned.
cleanRecord(record) == [key \in DOMAIN record |-> cleanString(record[key])]

\* convertWords
convertWords(records) ==
    {LET clean == cleanRecord(r)
     IN  WordRecord(clean.WORD, clean.VOWEL, clean.PROPERTY) : r \in records}

Dbf(word, vowel, property) == [WORD |-> word, VOWEL |-> vowel, PROPERTY |-> property]

a == <<"a">>
an == <<"a", "n">>

NounPool ==
    convertWords({
        Dbf(<<"shan", " ">>, <<"a", "n", " ">>, DiDian),
        Dbf(<<"chun", "tian">>, an, ShiJian),
        Dbf(<<"bei", "jing">>, <<"e", "n", "g">>, DiMing),
        Dbf(<<"ma", "ma">>, a, RenWu),
        Dbf(<<"li", "bai">>, <<"a", "i">>, RenMing),
        Dbf(<<"hua">>, a, EmptyString),
        Dbf(<<"shu">>, <<"u">>, <<"zhi", "wu">>)})

VerbPool ==
    convertWords({
        Dbf(<<"qi", "/", "ma", " ", " ">>, a, EmptyString),
        Dbf(<<"chang", "/", " ", "ge">>, <<"e">>, EmptyString),
        Dbf(<<"kan", "/", "shan">>, an, EmptyString),
        Dbf(<<"fei">>, <<"e", "i">>, EmptyString),
        Dbf(<<"pa">>, a, EmptyString)})

BasicPool ==
    convertWords({
        Dbf(<<"da">>, a, EmptyString),
        Dbf(<<"lan">>, an, EmptyString),
        Dbf(<<"mei", " ", "li">>, EmptyString, EmptyString)})

SpecialWord(content, type) == [content |-> content, type |-> type]

SpecialPool == {SpecialWord(<<"o">>, 1), SpecialWord(<<"a", "!">>, 2)}

DefaultNouns == <<WordRecord(<<"hua">>, a, EmptyString)>>
DefaultVerbs == <<WordRecord(<<"fei">>, <<"e", "i">>, EmptyString)>>
DefaultBasic == <<WordRecord(<<"da">>, a, EmptyString)>>
DefaultSpecial == <<SpecialWord(<<"o">>, 1)>>

----------------------------------------------------------------------------
(* DataService (src/src/services/data-service.ts)                          *)

getNouns == nouns
getAdjectives == adjectives
getIntransitiveVerbs == intransitiveVerbs
getTransitiveVerbs == transitiveVerbs
getInterjections == interjections
getSpecialWords == specialWords
getSentenceStructures == sentenceStructures

getWordsByPartOfSpeechDefaultNouns(partOfSpeech) ==
    CASE partOfSpeech \in {DD, DI, DV, DO} -> Return(getIntransitiveVerbs)
      [] partOfSpeech = DJ -> Return(getTransitiveVerbs)
      [] partOfSpeech = XA -> Return(getAdjectives)
      [] partOfSpeech = TT -> Return(getInterjections)
      [] partOfSpeech = SS ->
            Return([i \in 1..Len(getSpecialWords) |->
                        WordRecord(getSpecialWords[i].content, EmptyString, EmptyString)])
      [] OTHER -> Return(getNouns)

getWordsByPartOfSpeech(partOfSpeech) ==
    CASE partOfSpeech \in {MM, MC, MR} -> Return(getNouns)
      [] partOfSpeech \in {DD, DI, DV, DO} -> Return(getIntransitiveVerbs)
      [] partOfSpeech = DJ -> Return(getTransitiveVerbs)
      [] partOfSpeech = XA -> Return(getAdjectives)
      [] partOfSpeech = TT -> Return(getInterjections)
      [] partOfSpeech = SS ->
            Return([i \in 1..Len(getSpecialWords) |->
                        WordRecord(getSpecialWords[i].content, EmptyString, EmptyString)])
      [] OTHER -> Throw("UnsupportedPartOfSpeech", partOfSpeech)

----------------------------------------------------------------------------
(* WordSelector (src/src/services/data-service.ts)                         *)

\* Math.floor(Math.random() * words.length) is any index of the list.
getRandomWord(words) ==
    IF Len(words) = 0
    THEN {ThrowRecord("EmptyWordList")}
    ELSE {Return(words[randomIndex]) : randomIndex \in 1..Len(words)}

\* getRandomRhymingWord falling back on all the words.
getRandomRhymingWordOrAny(words, rhymeScheme) ==
    LET rhymingWords == filter(words, LAMBDA word : RhymeEq(word.vowel, rhymeScheme))
    IN  IF Len(rhymingWords) = 0 THEN getRandomWord(words) ELSE getRandomWord(rhymingWords)

getRandomRhymingWord(words, rhymeScheme) ==
    LET rhymingWords == filter(words, LAMBDA word : RhymeEq(word.vowel, rhymeScheme))
    IN  getRandomWord(rhymingWords)

wordOf(record) == record.word

selectBasicWordNoFilter(words, needsRhyme, rhymeScheme) ==
    Then(getRandomWord(words), wordOf)

selectBasicWord(words, needsRhyme, rhymeScheme) ==
    LET rhymingWords == filter(words, LAMBDA word : RhymeEq(word.vowel, rhymeScheme))
    IN  IF needsRhyme /\ Truthy(rhymeScheme) /\ Len(rhymingWords) > 0
        THEN Then(getRandomWord(rhymingWords), wordOf)
        ELSE Then(getRandomWord(words), wordOf)

\* The text of a DD verb: the separator removed, the two halves joined.
plainVerb(selectedWord) ==
    LET wordText == selectedWord.word
        slashIndex == indexOf(wordText, Slash)
    IN  IF slashIndex # -1
        THEN substring(wordText, 0, slashIndex) \o substringFrom(wordText, slashIndex + 1)
        ELSE wordText

selectIntransitiveVerbKeepSlash(words, needsRhyme, rhymeScheme) ==
    Then(IF needsRhyme /\ Truthy(rhymeScheme)
         THEN getRandomRhymingWord(words, rhymeScheme)
         ELSE getRandomWord(words),
         wordOf)

selectIntransitiveVerbSchemeUnchecked(words, needsRhyme, rhymeScheme) ==
    Then(IF needsRhyme
         THEN getRandomRhymingWord(words, rhymeScheme)
         ELSE getRandomWord(words),
         plainVerb)

selectIntransitiveVerb(words, needsRhyme, rhymeScheme) ==
    Then(IF needsRhyme /\ Truthy(rhymeScheme)
         THEN getRandomRhymingWord(words, rhymeScheme)
         ELSE getRandomWord(words),
         plainVerb)

isLocation(word) ==
    word.property = ShiJian \/ word.property = DiDian \/ word.property = DiMing

selectLocationNounFallbackAll(words, needsRhyme, rhymeScheme) ==
    LET locationWords == filter(words, isLocation)
        rhymingLocationWords ==
            filter(locationWords, LAMBDA word : RhymeEq(word.vowel, rhymeScheme))
    IN  IF needsRhyme /\ Truthy(rhymeScheme) /\ Len(rhymingLocationWords) > 0
        THEN Then(getRandomWord(rhymingLocationWords), wordOf)
        ELSE Then(getRandomWord(words), wordOf)

selectLocationNoun(words, needsRhyme, rhymeScheme) ==
    LET locationWords == filter(words, isLocation)
        rhymingLocationWords ==
            filter(locationWords, LAMBDA word : RhymeEq(word.vowel, rhymeScheme))
    IN  IF needsRhyme /\ Truthy(rhymeScheme) /\ Len(rhymingLocationWords) > 0
        THEN Then(getRandomWord(rhymingLocationWords), wordOf)
        ELSE IF Len(locationWords) = 0
             THEN {Throw("NoLocationNoun", EmptyString)}
             ELSE Then(getRandomWord(locationWords), wordOf)

isPerson(word) == word.property = RenWu \/ word.property = RenMing

selectPersonNoun(words, needsRhyme, rhymeScheme) ==
    LET personWords == filter(words, isPerson)
        rhymingPersonWords ==
            filter(personWords, LAMBDA word : RhymeEq(word.vowel, rhymeScheme))
    IN  IF needsRhyme /\ Truthy(rhymeScheme) /\ Len(rhymingPersonWords) > 0
        THEN Then(getRandomWord(rhymingPersonWords), wordOf)
        ELSE IF Len(personWords) = 0
             THEN {Throw("NoPersonNoun", EmptyString)}
             ELSE Then(getRandomWord(personWords), wordOf)

hasSlash(word) == includes(word.word, Slash)
hasNoSlash(word) == ~includes(word.word, Slash)

\* selectSimpleVerb falling back on all the verbs.
selectSimpleVerbAnyVerb(words) ==
    LET simpleVerbs == filter(words, hasNoSlash)
    IN  IF Len(simpleVerbs) = 0
        THEN Then(getRandomWord(words), wordOf)
        ELSE Then(getRandomWord(simpleVerbs), wordOf)

selectSimpleVerb(words) ==
    LET simpleVerbs == filter(words, hasNoSlash)
    IN  IF Len(simpleVerbs) = 0
        THEN {Throw("NoSimpleVerb", EmptyString)}
        ELSE Then(getRandomWord(simpleVerbs), wordOf)

\* The text of a DV verb: stem + '着' + complement.
progressiveVerb(selectedWord) ==
    LET wordText == selectedWord.word
        slashIndex == indexOf(wordText, Slash)
    IN  IF slashIndex # -1
        THEN substring(wordText, 0, slashIndex) \o <<Zhe>>
                 \o substringFrom(wordText, slashIndex + 1)
        ELSE wordText \o <<Zhe>>

selectProgressiveVerbAnyVerb(words, needsRhyme, rhymeScheme) ==
    Then(getRandomWord(words), progressiveVerb)

selectProgressiveVerb(words, needsRhyme, rhymeScheme) ==
    LET splittable == filter(words, hasSlash)
        rhymingWords == filter(splittable, LAMBDA word : RhymeEq(word.vowel, rhymeScheme))
        candidateWords ==
            IF needsRhyme /\ Truthy(rhymeScheme) /\ Len(rhymingWords) > 0
            THEN rhymingWords
            ELSE splittable
    IN  IF Len(candidateWords) = 0
        THEN {Throw("NoProgressiveVerb", EmptyString)}
        ELSE Then(getRandomWord(candidateWords), progressiveVerb)

\* The text of a DO verb: complement (trimmed) + stem + '得'.
resultativeVerb(selectedWord) ==
    LET wordText == selectedWord.word
        slashIndex == indexOf(wordText, Slash)
    IN  IF slashIndex # -1
        THEN trim(substringFrom(wordText, slashIndex + 1))
                 \o substring(wordText, 0, slashIndex) \o <<De>>
        ELSE wordText \o <<De>>

selectResultativeVerbStemFirst(words) ==
    Then(getRandomWord(filter(words, hasSlash)), progressiveVerb)

selectResultativeVerb(words) ==
    LET candidateWords == filter(words, hasSlash)
    IN  IF Len(candidateWords) = 0
        THEN {Throw("NoResultativeVerb", EmptyString)}
        ELSE Then(getRandomWord(candidateWords), resultativeVerb)

selectSpecialWord ==
    IF Len(getSpecialWords) = 0
    THEN {Return(EmptyString)}
    ELSE {Return(getSpecialWords[randomIndex].content) :
              randomIndex \in 1..Len(getSpecialWords)}

WordSelectionContext(partOfSpeech, needsRhyme, rhymeScheme) ==
    [rhymeScheme |-> rhymeScheme, partOfSpeech |-> partOfSpeech, needsRhyme |-> needsRhyme]

selectWord(context) ==
    LET partOfSpeech == context.partOfSpeech
        needsRhyme == context.needsRhyme
        rhymeScheme == context.rhymeScheme
        got == getWordsByPartOfSpeech(partOfSpeech)
        words == got.value
    IN  IF got.threw
        THEN {Throw(got.error, got.arg)}
        ELSE CASE partOfSpeech \in {MM, TT, DJ, XA} ->
                      selectBasicWord(words, needsRhyme, rhymeScheme)
               [] partOfSpeech = DD -> selectIntransitiveVerb(words, needsRhyme, rhymeScheme)
               [] partOfSpeech = MC -> selectLocationNoun(words, needsRhyme, rhymeScheme)
               [] partOfSpeech = MR -> selectPersonNoun(words, needsRhyme, rhymeScheme)
               [] partOfSpeech = DI -> selectSimpleVerb(words)
               [] partOfSpeech = DV -> selectProgressiveVerb(words, needsRhyme, rhymeScheme)
               [] partOfSpeech = DO -> selectResultativeVerb(words)
               [] partOfSpeech = SS -> selectSpecialWord
               [] OTHER -> {Throw("UnsupportedPartOfSpeech", partOfSpeech)}

----------------------------------------------------------------------------
(* Calls of the word selector and of the store by a client                 *)

UNKNOWN == <<"U", "N", "K", "N", "O", "W", "N">>

\* Tags a caller can pass: the closed set and strings outside it.
CallTags == PartOfSpeech \cup {UNKNOWN, <<"M", "m">>, <<"d", "d">>, EmptyString}

CallSchemes == {{}, {EmptyString}, {a}, {an}}

CallContexts ==
    {WordSelectionContext(t, n, r) : t \in CallTags, n \in BOOLEAN, r \in CallSchemes}

NoContext == WordSelectionContext(EmptyString, FALSE, {})

SelectWordCall ==
    \E context \in CallContexts :
        \E outcome \in selectWord(context) :
            /\ lastOp = "none"
            /\ lastOp' = "selectWord"
            /\ lastContext' = context
            /\ lastWord' = outcome
            /\ lastPool' = Return(<<>>)
            /\ UNCHANGED <<tables, engineVars, utilVars>>

GetWordsCall ==
    \E partOfSpeech \in CallTags :
        /\ lastOp = "none"
        /\ lastOp' = "getWordsByPartOfSpeech"
        /\ lastContext' = WordSelectionContext(partOfSpeech, FALSE, {})
        /\ lastPool' = getWordsByPartOfSpeech(partOfSpeech)
        /\ lastWord' = Return(EmptyString)
        /\ UNCHANGED <<tables, engineVars, utilVars>>

\* The caller takes the outcome; the selector is ready for the next call.
CallDone ==
    /\ lastOp # "none"
    /\ lastOp' = "none"
    /\ lastContext' = NoContext
    /\ lastWord' = Return(EmptyString)
    /\ lastPool' = Return(<<>>)
    /\ UNCHANGED <<tables, engineVars, utilVars>>

\* The lexicon after loading: one table ranges over all lists of pool
\* records, the others hold one record each.
InitLexicon ==
    /\ \E varied \in {"nouns", "verbs", "adjectives", "transitive", "interjections", "special"} :
        /\ nouns \in (IF varied = "nouns" THEN SeqUpTo(NounPool, MaxWords) ELSE {DefaultNouns})
        /\ intransitiveVerbs \in
               (IF varied = "verbs" THEN SeqUpTo(VerbPool, MaxWords) ELSE {DefaultVerbs})
        /\ adjectives \in
               (IF varied = "adjectives" THEN SeqUpTo(BasicPool, MaxWords) ELSE {DefaultBasic})
        /\ transitiveVerbs \in
               (IF varied = "transitive" THEN SeqUpTo(BasicPool, MaxWords) ELSE {DefaultBasic})
        /\ interjections \in
               (IF varied = "interjections" THEN SeqUpTo(BasicPool, MaxWords)
                ELSE {DefaultBasic})
        /\ specialWords \in
               (IF varied = "special" THEN SeqUpTo(SpecialPool, MaxWords) ELSE {DefaultSpecial})

InitSelector ==
    /\ lastOp = "none"
    /\ lastContext = NoContext
    /\ lastWord = Return(EmptyString)
    /\ lastPool = Return(<<>>)

NoOptions ==
    [rhymeScheme |-> {}, style |-> "bold", paragraphCount |-> 0,
     linesPerParagraph |-> 0, useRhyme |-> FALSE]

InitEngine ==
    /\ pc = "idle"
    /\ options = NoOptions
    /\ lineIndex = 0
    /\ attempts = 0
    /\ tempStructures = <<>>
    /\ fallbacks = {}
    /\ workingStructures = <<>>
    /\ lines = <<>>
    /\ error = ""

\* normalizeRhymeScheme has not been called.
NoRhymeCall ==
    /\ rhyme = EmptyString
    /\ rhymeArgs = <<>>

\* The savePoetry calls a caller may make.
SaveCalls == 1..MaxSaves

\* savePoetry has not been called; the configuration is not loaded.
NoSaveCall ==
    /\ config = {}
    /\ files = {}
    /\ savePc = [c \in SaveCalls |-> "idle"]
    /\ saveArgs = [c \in SaveCalls |-> <<>>]
    /\ saveAt = [c \in SaveCalls |-> 0]
    /\ saveResult = [c \in SaveCalls |-> <<>>]
    /\ saveOrder = <<>>

\* The tables DataService caches besides the configuration.
TableNames == {"nouns", "adjectives", "intransitiveVerbs", "transitiveVerbs",
               "interjections", "sentenceStructures", "specialWords"}
FileNames == TableNames \cup {"config"}

\* No DataService exists yet; every data file is there.
NoCacheCall ==
    /\ instance = {}
    /\ returnedInstances = {}
    /\ cached = [name \in TableNames |-> {}]
    /\ present = FileNames
    /\ reads = [name \in FileNames |-> 0]
    /\ lastGet = <<>>

\* The program was not started from the command line.
NoCliCall ==
    /\ cliArgs = <<>>
    /\ cliOptions = {}
    /\ cliRequest = {}

\* getPoetAge has not been called; the clock shows the birth date.
NoAgeCall ==
    /\ now = <<2002, 3, 4>>
    /\ ageInfo = <<>>

\* generateLine has not been called on its own.
NoRenderCall ==
    /\ renderArgs = <<>>
    /\ renderPc = "idle"
    /\ elementIndex = 0
    /\ renderLine = <<>>
    /\ examined = <<>>
    /\ selectorCalls = <<>>
    /\ warnings = <<>>

\* processStructureElements has not been called on its own.
NoExpandCall ==
    /\ expandArgs = <<>>
    /\ expandResult = {}

\* shouldLineRhyme has not been called on its own.
NoLineCall ==
    /\ lineQuery = <<1, 1>>
    /\ lineAnswer = {}

InitUtil ==
    /\ NoRhymeCall /\ NoSaveCall /\ configFile = 0 /\ NoCacheCall /\ NoCliCall
    /\ NoAgeCall /\ NoLineCall /\ NoExpandCall /\ NoRenderCall

InitSel ==
    /\ InitLexicon
    /\ sentenceStructures = <<>>
    /\ InitSelector
    /\ InitEngine
    /\ InitUtil

NextSel == SelectWordCall \/ GetWordsCall \/ CallDone

SpecSel == InitSel /\ [][NextSel]_vars

----------------------------------------------------------------------------
(* Properties of the word selector (checked under SpecSel)                 *)

Selected(tagSet) ==
    lastOp = "selectWord" /\ lastContext.partOfSpeech \in tagSet

RhymeRequired == lastContext.needsRhyme /\ Truthy(lastContext.rhymeScheme)

\* The table a basic tag draws from.
BasicTable ==
    CASE lastContext.partOfSpeech = MM -> nouns
      [] lastContext.partOfSpeech = TT -> interjections
      [] lastContext.partOfSpeech = DJ -> transitiveVerbs
      [] lastContext.partOfSpeech = XA -> adjectives

Rhyming(table) == {r \in Range(table) : r.vowel \in lastContext.rhymeScheme}

\* 1-based position of the separator of a splittable word.
SlashAt(word) == CHOOSE i \in 1..Len(word) : word[i] = Slash
Stem(word) == SubSeq(word, 1, SlashAt(word) - 1)
Complement(word) == SubSeq(word, SlashAt(word) + 1, Len(word))
Splittable(table) == {r \in Range(table) : Slash \in Range(r.word)}

\* C5 as stated: for MM, TT, DJ, XA with needsRhyme and a (non-empty) scheme,
\* the call returns the word of an entry of that vowel if one exists, and
\* otherwise returns the word of an entry of the unfiltered pool; it never
\* fails.
C5_BasicRhymeNeverFails ==
    (Selected({MM, TT, DJ, XA}) /\ RhymeRequired) =>
        /\ ~lastWord.threw
        /\ IF Rhyming(BasicTable) # {}
           THEN \E r \in Rhyming(BasicTable) : r.word = lastWord.value
           ELSE \E r \in Range(BasicTable) : r.word = lastWord.value

\* C5 amended: the same for a non-empty pool; on an empty pool the call
\* raises the 'empty word list' error.
C5_BasicRhymeOrFallback ==
    (Selected({MM, TT, DJ, XA}) /\ RhymeRequired) =>
        IF Len(BasicTable) = 0
        THEN lastWord.threw /\ lastWord.error = "EmptyWordList"
        ELSE /\ ~lastWord.threw
             /\ IF Rhyming(BasicTable) # {}
                THEN \E r \in Rhyming(BasicTable) : r.word = lastWord.value
                ELSE \E r \in Range(BasicTable) : r.word = lastWord.value

\* A rhyme-restricted draw from a pool that also holds other vowels.
C5_WitnessRhymed ==
    /\ Selected({MM, TT, DJ, XA}) /\ RhymeRequired /\ ~lastWord.threw
    /\ Rhyming(BasicTable) # {}
    /\ Rhyming(BasicTable) # Range(BasicTable)

\* C6: a word returned for MC is the word of a noun with property
\* 时间/地点/地名, one returned for MR that of a noun with property 人物/人名,
\* with or without a rhyme requirement.
C6_PropertyFiltered ==
    /\ (Selected({MC}) /\ ~lastWord.threw) =>
           \E r \in Range(nouns) :
               r.property \in {ShiJian, DiDian, DiMing} /\ r.word = lastWord.value
    /\ (Selected({MR}) /\ ~lastWord.threw) =>
           \E r \in Range(nouns) :
               r.property \in {RenWu, RenMing} /\ r.word = lastWord.value

\* MC returns although the rhyme filter matches no location noun and the
\* table holds a rhyming noun of another property.
C6_WitnessRhymeFallback ==
    /\ Selected({MC}) /\ RhymeRequired /\ ~lastWord.threw
    /\ \A r \in Rhyming(nouns) : r.property \notin {ShiJian, DiDian, DiMing}
    /\ Rhyming(nouns) # {}

\* C7: a DV result is stem + 着 + complement of a splittable intransitive
\* verb, so it contains 着; under a rhyme requirement the verb has the
\* scheme's vowel whenever a splittable verb of that vowel exists.
C7_ProgressiveForm ==
    (Selected({DV}) /\ ~lastWord.threw) =>
        /\ Zhe \in Range(lastWord.value)
        /\ \E r \in Splittable(intransitiveVerbs) :
               /\ lastWord.value = Stem(r.word) \o <<Zhe>> \o Complement(r.word)
               /\ (RhymeRequired /\ Rhyming(intransitiveVerbs) \cap Splittable(intransitiveVerbs) # {})
                      => r.vowel \in lastContext.rhymeScheme

\* DV under a rhyme requirement no splittable verb meets, with a
\* non-splittable verb in the table.
C7_WitnessFallback ==
    /\ Selected({DV}) /\ RhymeRequired /\ ~lastWord.threw
    /\ Rhyming(intransitiveVerbs) \cap Splittable(intransitiveVerbs) = {}
    /\ Splittable(intransitiveVerbs) # Range(intransitiveVerbs)

\* C8 as stated: a DO result is complement + stem + 得 of a splittable
\* intransitive verb; it contains 得 and never the separator.
C8_ResultativeForm ==
    (Selected({DO}) /\ ~lastWord.threw) =>
        /\ De \in Range(lastWord.value)
        /\ Slash \notin Range(lastWord.value)
        /\ \E r \in Splittable(intransitiveVerbs) :
               lastWord.value = Complement(r.word) \o Stem(r.word) \o <<De>>

\* C8 amended: the complement is trimmed of surrounding whitespace before
\* it is put in front of the stem.
C8_ResultativeFormTrimmed ==
    (Selected({DO}) /\ ~lastWord.threw) =>
        /\ De \in Range(lastWord.value)
        /\ Slash \notin Range(lastWord.value)
        /\ \E r \in Splittable(intransitiveVerbs) :
               lastWord.value = trim(Complement(r.word)) \o Stem(r.word) \o <<De>>

\* DO returns with a non-splittable verb in the table.
C8_WitnessReturned ==
    /\ Selected({DO}) /\ ~lastWord.threw
    /\ Splittable(intransitiveVerbs) # Range(intransitiveVerbs)

\* C9: a word returned for DD or DI never contains the separator '/'.
C9_NoSeparator ==
    (Selected({DD, DI}) /\ ~lastWord.threw) => Slash \notin Range(lastWord.value)

\* DD returns from a table that holds only splittable verbs.
C9_WitnessJoined ==
    /\ Selected({DD}) /\ ~lastWord.threw
    /\ Range(intransitiveVerbs) # {}
    /\ Splittable(intransitiveVerbs) = Range(intransitiveVerbs)

\* C10: selectWord and getWordsByPartOfSpeech called with a tag outside the
\* closed set raise the 'unsupported part of speech' error naming the tag.
C10_UnsupportedTagThrows ==
    /\ (lastOp = "selectWord" /\ lastContext.partOfSpeech \notin PartOfSpeech) =>
           /\ lastWord.threw
           /\ lastWord.error = "UnsupportedPartOfSpeech"
           /\ lastWord.arg = lastContext.partOfSpeech
    /\ (lastOp = "getWordsByPartOfSpeech" /\ lastContext.partOfSpeech \notin PartOfSpeech) =>
           /\ lastPool.threw
           /\ lastPool.error = "UnsupportedPartOfSpeech"
           /\ lastPool.arg = lastContext.partOfSpeech

\* The store was asked for a legacy casing of a tag.
C10_WitnessLegacyTag ==
    /\ lastOp = "getWordsByPartOfSpeech"
    /\ lastContext.partOfSpeech = <<"M", "m">>
    /\ lastPool.threw

\* C25: selectWord raises an error and returns no word when the pool of a
\* tag without fallback is empty: MC with no noun of a location or time
\* property, MR with no noun of a person property, DI when every
\* intransitive verb holds the separator, DV and DO when none does; with
\* and without a rhyme requirement.
C25_EmptyPoolThrows ==
    lastOp = "selectWord" =>
        LET tag == lastContext.partOfSpeech
            noun(i) == nouns[i].property
            verb(i) == intransitiveVerbs[i].word
            split(i) == \E c \in 1..Len(verb(i)) : verb(i)[c] = "/"
        IN  /\ (tag = <<"M", "C">>
                  /\ \A i \in 1..Len(nouns) :
                        noun(i) \notin {<<"shi", "jian">>, <<"di", "dian">>, <<"di", "ming">>})
                  => lastWord.threw /\ lastWord.error = "NoLocationNoun"
            /\ (tag = <<"M", "R">>
                  /\ \A i \in 1..Len(nouns) :
                        noun(i) \notin {<<"ren", "wu">>, <<"ren", "ming">>})
                  => lastWord.threw /\ lastWord.error = "NoPersonNoun"
            /\ (tag = <<"D", "I">> /\ \A i \in 1..Len(intransitiveVerbs) : split(i))
                  => lastWord.threw /\ lastWord.error = "NoSimpleVerb"
            /\ (tag = <<"D", "V">> /\ \A i \in 1..Len(intransitiveVerbs) : ~split(i))
                  => lastWord.threw /\ lastWord.error = "NoProgressiveVerb"
            /\ (tag = <<"D", "O">> /\ \A i \in 1..Len(intransitiveVerbs) : ~split(i))
                  => lastWord.threw /\ lastWord.error = "NoResultativeVerb"

\* A simple verb was asked for, with a rhyme requirement, from a table of
\* splittable verbs only.
C25_WitnessNoSimpleVerb ==
    /\ lastOp = "selectWord"
    /\ lastContext.partOfSpeech = DI
    /\ lastContext.needsRhyme /\ lastContext.rhymeScheme # {}
    /\ Len(intransitiveVerbs) > 0
    /\ \A i \in 1..Len(intransitiveVerbs) : hasSlash(intransitiveVerbs[i])
    /\ lastWord.threw

----------------------------------------------------------------------------
(* Sentence structures (src/data/sentence-structures.json)                 *)

SentenceStructure(internalNeed, limitedRhyme, compoundStructureCount, punctuation, elements) ==
    [internalNeed |-> internalNeed, limitedRhyme |-> limitedRhyme,
     compoundStructureCount |-> compoundStructureCount,
     punctuation |-> punctuation, elements |-> elements]

\* convertSentenceStructures: the fields J1..J27, a missing one is ''.
convertSentenceStructures(record) ==
    SentenceStructure(
        record.INTNEED,
        cleanString(record.LIMITED),
        record.CS,
        cleanString(record.PUNCT),
        [i \in 1..27 |-> IF i <= Len(record.J) THEN cleanString(record.J[i]) ELSE EmptyString])

DbfStructure(limited, cs, punct, j) ==
    [INTNEED |-> 0, LIMITED |-> limited, CS |-> cs, PUNCT |-> punct, J |-> j]

E == <<"E">>
Zhi == <<"zhi">>
Comma == <<",">>

\* Mm 之 MC ，      (rhyme a)
StructureA ==
    convertSentenceStructures(
        DbfStructure(a, 0, <<",", " ">>, <<<<"M", "m">>, Zhi, MC>>))

\* 之 Mr Dd        (expandable compound, no punctuation)
StructureB ==
    convertSentenceStructures(
        DbfStructure(E, 0, EmptyString, <<Zhi, <<"M", "r">>, <<"D", "d">>>>))

\* TT ， Dd !!      (compound structure count 1, no rhyme limit)
StructureC ==
    convertSentenceStructures(
        DbfStructure(EmptyString, 1, <<"!", "!">>, <<TT, Comma, <<"D", "d">>>>))

\* Ten slots (not a quiet structure), rhyme an
StructureD ==
    convertSentenceStructures(
        DbfStructure(an, 0, <<".">>,
            <<XA, Zhi, MC, Comma, XA, Zhi, <<"m", "m">>, Comma, DJ, DI>>))

\* A record whose fields are all blank
StructureBlank ==
    convertSentenceStructures(DbfStructure(<<" ">>, 0, <<" ">>, <<>>))

\* SS alone
StructureS ==
    convertSentenceStructures(DbfStructure(EmptyString, 0, <<".">>, <<SS>>))

\* 27 slots, two of them expandable verbs
StructureFull ==
    convertSentenceStructures(
        DbfStructure(E, 0, <<".">>,
            [i \in 1..27 |-> IF i \in {1, 27} THEN <<"D", "d">> ELSE Zhi]))

StructureTables ==
    {<<StructureA, StructureB, StructureC>>,
     <<StructureD, StructureA>>,
     <<StructureD>>,
     <<StructureS, StructureBlank>>,
     <<StructureFull>>,
     <<>>}

\* The lexicons the generator runs on: a regular one, and one with no
\* person or location noun, no splittable verb and no special word.
RegularLexicon ==
    [nouns |-> <<WordRecord(<<"ma", "ma">>, a, RenWu), WordRecord(<<"shan">>, an, DiDian)>>,
     adjectives |-> <<WordRecord(<<"da">>, a, EmptyString)>>,
     intransitiveVerbs |-> <<WordRecord(<<"qi", "/", "ma">>, a, EmptyString),
                             WordRecord(<<"fei">>, <<"e", "i">>, EmptyString)>>,
     transitiveVerbs |-> <<WordRecord(<<"kan">>, an, EmptyString)>>,
     interjections |-> <<WordRecord(<<"a">>, a, EmptyString)>>,
     specialWords |-> <<SpecialWord(<<"o">>, 1)>>]

\* A lexicon whose only intransitive verb is splittable and has the vowel e.
UnrhymedLexicon ==
    [RegularLexicon EXCEPT
        !.intransitiveVerbs = <<WordRecord(<<"chang", "/", "ge">>, <<"e">>, EmptyString)>>]

PoorLexicon ==
    [nouns |-> <<WordRecord(<<"hua">>, a, EmptyString)>>,
     adjectives |-> <<WordRecord(<<"da">>, a, EmptyString)>>,
     intransitiveVerbs |-> <<WordRecord(<<"fei">>, <<"e", "i">>, EmptyString)>>,
     transitiveVerbs |-> <<WordRecord(<<"kan">>, an, EmptyString)>>,
     interjections |-> <<WordRecord(<<"a">>, a, EmptyString)>>,
     specialWords |-> <<>>]

----------------------------------------------------------------------------
(* StructureGenerator (src/src/services/poetry-engine.ts)                  *)

maxAttempts == 100

\* structures[index], 0-based; an index outside the array reads undefined.
Defined(structures, index) == index + 1 \in DOMAIN structures
At(structures, index) == structures[index + 1]

\* Math.floor(Math.random() * structures.length)
RandomIndices(length) == IF length = 0 THEN {0} ELSE 0..(length - 1)

\* shouldLineRhyme without the test for the first line.
shouldLineRhymeEvenOnly(index, totalLines) ==
    IF totalLines % 2 = 0
    THEN index % 2 = 0
    ELSE (index + 1) % 2 = 0

shouldLineRhyme(index, totalLines) ==
    IF totalLines % 2 = 0
    THEN index = 1 \/ index % 2 = 0
    ELSE (index + 1) % 2 = 0

\* The rhyme check without the test of compoundStructureCount.
rhymeRejectsCompound(structure, needsRhyme, rhymeScheme) ==
    /\ needsRhyme /\ Truthy(rhymeScheme)
    /\ structure.limitedRhyme \notin rhymeScheme
    /\ structure.limitedRhyme # E

\* The rhyme check of both selectors: TRUE when the draw is rejected.
rhymeRejects(structure, needsRhyme, rhymeScheme) ==
    /\ needsRhyme /\ Truthy(rhymeScheme) /\ structure.compoundStructureCount = 0
    /\ structure.limitedRhyme \notin rhymeScheme
    /\ structure.limitedRhyme # E

\* One pass of the loop of selectQuietStructure on the drawn index.
drawQuiet(structures, randomIndex, needsRhyme, rhymeScheme) ==
    IF ~Defined(structures, randomIndex)
    THEN "TypeError"
    ELSE LET structure == At(structures, randomIndex)
             isQuiet == structure.elements[10] = EmptyString
         IN  IF ~isQuiet THEN "reject"
             ELSE IF rhymeRejects(structure, needsRhyme, rhymeScheme) THEN "reject"
             ELSE "accept"

\* One pass of the loop of selectBoldStructure on the drawn index.
drawBold(structures, randomIndex, needsRhyme, rhymeScheme) ==
    IF ~Defined(structures, randomIndex)
    THEN IF needsRhyme /\ Truthy(rhymeScheme) THEN "TypeError" ELSE "accept"
    ELSE IF rhymeRejects(At(structures, randomIndex), needsRhyme, rhymeScheme)
         THEN "reject"
         ELSE "accept"

\* A draw that applies the rhyme check only under options.useRhyme.
drawUnderUseRhyme(style, structures, randomIndex, needsRhyme, rhymeScheme) ==
    IF style = "quiet"
    THEN drawQuiet(structures, randomIndex, needsRhyme /\ options.useRhyme, rhymeScheme)
    ELSE drawBold(structures, randomIndex, needsRhyme /\ options.useRhyme, rhymeScheme)

draw(style, structures, randomIndex, needsRhyme, rhymeScheme) ==
    IF style = "quiet"
    THEN drawQuiet(structures, randomIndex, needsRhyme, rhymeScheme)
    ELSE drawBold(structures, randomIndex, needsRhyme, rhymeScheme)

WorkingStructure(compoundStructureCount, punctuation, elements) ==
    [compoundStructureCount |-> compoundStructureCount,
     punctuation |-> punctuation, elements |-> elements]

\* structure.elements[i] || '', 0-based
elementAt(structure, i) ==
    IF i + 1 \in DOMAIN structure.elements THEN structure.elements[i + 1] ELSE EmptyString

\* processElement without the test of limitedRhyme.
processElementAnyRhyme(structure, element) ==
    IF element = <<"D", "d">>
    THEN <<DV, <<Zhe>>, DO>>
    ELSE IF Len(element) = 2 /\ element[1] = charToLowerCase(element[1])
         THEN <<toUpperCase(element)>>
         ELSE <<element>>

processElement(structure, element) ==
    IF element = <<"D", "d">> /\ structure.limitedRhyme = E
    THEN <<DV, <<Zhe>>, DO>>
    ELSE IF Len(element) = 2 /\ element[1] = charToLowerCase(element[1])
         THEN <<toUpperCase(element)>>
         ELSE <<element>>

RECURSIVE processLoop(_, _, _)
processLoop(structure, i, processedElements) ==
    IF i < 27 /\ elementAt(structure, i) # EmptyString
    THEN processLoop(structure, i + 1,
                     processedElements \o processElement(structure, elementAt(structure, i)))
    ELSE processedElements

padTo30(processedElements) ==
    IF Len(processedElements) < 30
    THEN processedElements \o [k \in 1..(30 - Len(processedElements)) |-> EmptyString]
    ELSE processedElements

processStructureElementsOnRhyme(structure, needsRhyme, rhymeScheme) ==
    WorkingStructure(
        structure.compoundStructureCount,
        structure.punctuation,
        IF needsRhyme
        THEN padTo30(processLoop(structure, 0, <<>>))
        ELSE padTo30(SelectSeq(structure.elements, LAMBDA e : e # EmptyString)))

processStructureElements(structure, needsRhyme, rhymeScheme) ==
    WorkingStructure(
        structure.compoundStructureCount,
        structure.punctuation,
        padTo30(processLoop(structure, 0, <<>>)))

expandLoopOneParagraph(structures, temps, request, paragraphIndex, line, working) ==
    [k \in 1..Len(temps) |->
        processStructureElements(At(structures, temps[k]),
                                 shouldLineRhyme(1, request.paragraphCount),
                                 request.rhymeScheme)]

\* The second loop of createStructure: for each paragraph, for each line.
RECURSIVE expandLoop(_, _, _, _, _, _)
expandLoop(structures, temps, request, paragraphIndex, line, working) ==
    IF paragraphIndex > request.paragraphCount THEN working
    ELSE IF line > request.linesPerParagraph
         THEN expandLoop(structures, temps, request, paragraphIndex + 1, 1, working)
         ELSE LET baseStructure == At(structures, temps[line])
                  needsRhyme == shouldLineRhyme(paragraphIndex, request.paragraphCount)
              IN  expandLoop(structures, temps, request, paragraphIndex, line + 1,
                      Append(working,
                             processStructureElements(baseStructure, needsRhyme,
                                                      request.rhymeScheme)))

----------------------------------------------------------------------------
(* PoetryEngine (src/src/services/poetry-engine.ts)                        *)

partOfSpeechTags == <<MM, MC, MR, DD, DI, DV, DO, DJ, XA, TT, SS>>

XX == <<"X", "X">>
DB == <<"D", "B">>

\* legacyMappings of normalizePartOfSpeech
legacyMappings ==
    (XX :> XA) @@ (<<"M", "m">> :> MM) @@ (<<"M", "r">> :> MR) @@ (<<"M", "c">> :> MC)
    @@ (DB :> DD) @@ (<<"D", "d">> :> DD) @@ (<<"D", "v">> :> DV) @@ (<<"D", "o">> :> DO)

isPartOfSpeech(element) ==
    \/ element \in Range(partOfSpeechTags)
    \/ toUpperCase(element) \in Range(partOfSpeechTags)
    \/ element \in DOMAIN legacyMappings

normalizePartOfSpeech(element) ==
    IF element \in DOMAIN legacyMappings THEN legacyMappings[element]
    ELSE IF toUpperCase(element) \in Range(partOfSpeechTags) THEN toUpperCase(element)
    ELSE IF element \in Range(partOfSpeechTags) THEN element
    ELSE MM

selectWordForElement(partOfSpeech, request) ==
    selectWord(WordSelectionContext(partOfSpeech, request.useRhyme, request.rhymeScheme))

\* The default branch of normalizePartOfSpeech, which calls console.warn.
unknownPartOfSpeech(element) ==
    /\ element \notin DOMAIN legacyMappings
    /\ toUpperCase(element) \notin Range(partOfSpeechTags)
    /\ element \notin Range(partOfSpeechTags)

\* The walk without the skip after a compound verb.
skipAfterNone(partOfSpeech) == 0

\* The walk skipping one element only after a compound verb.
skipAfterOne(partOfSpeech) ==
    IF partOfSpeech = DV \/ partOfSpeech = DO THEN 1 ELSE 0

\* elementIndex += 2 after a progressive or resultative verb.
skipAfter(partOfSpeech) ==
    IF partOfSpeech = DV \/ partOfSpeech = DO THEN 2 ELSE 0

\* The loop of generateLine from index on, with the text so far.
RECURSIVE lineLoop(_, _, _, _)
lineLoop(structure, request, index, line) ==
    IF index < 27 /\ elementAt(structure, index) # EmptyString
    THEN LET element == elementAt(structure, index)
         IN  IF isPartOfSpeech(element)
             THEN LET partOfSpeech == normalizePartOfSpeech(element)
                      skip == skipAfter(partOfSpeech)
                  IN  UNION {IF word.threw
                             THEN {word}
                             ELSE lineLoop(structure, request, index + skip + 1,
                                           line \o word.value) :
                             word \in selectWordForElement(partOfSpeech, request)}
             ELSE lineLoop(structure, request, index + 1, line \o element)
    ELSE {Return(trim(line \o structure.punctuation))}

generateLineNoPunctuation(structure, request) ==
    {IF o.threw THEN o
     ELSE Return(SubSeq(o.value, 1, Len(o.value) - Len(structure.punctuation))) :
        o \in lineLoop(structure, request, 0, EmptyString)}

generateLine(structure, request) == lineLoop(structure, request, 0, EmptyString)

----------------------------------------------------------------------------
(* A generation request, step by step                                      *)

\* The requests of the model: up to MaxStanzas stanzas of up to MaxLines
\* lines, poems of at most MaxPoemLines lines.
Requests ==
    {request \in [rhymeScheme : {{}, {a}},
                  style : {"quiet", "bold"},
                  paragraphCount : 1..MaxStanzas,
                  linesPerParagraph : 1..MaxLines,
                  useRhyme : BOOLEAN] :
        request.paragraphCount * request.linesPerParagraph <= MaxPoemLines}

\* generatePoetry is called: createStructure starts its first loop.
GeneratePoetry ==
    \E request \in Requests :
        /\ pc = "idle"
        /\ pc' = "select"
        /\ options' = request
        /\ lineIndex' = 1
        /\ attempts' = 0
        /\ UNCHANGED <<tempStructures, fallbacks, workingStructures, lines, error>>
        /\ UNCHANGED <<tables, selectorVars, utilVars>>

\* One pass of the selection loop for line position lineIndex.
SelectDraw ==
    /\ pc = "select"
    /\ lineIndex <= options.linesPerParagraph
    /\ attempts < maxAttempts
    /\ \E randomIndex \in RandomIndices(Len(getSentenceStructures)) :
        LET needsRhyme == shouldLineRhyme(lineIndex, options.linesPerParagraph)
            result == draw(options.style, getSentenceStructures, randomIndex,
                           needsRhyme, options.rhymeScheme)
        IN  CASE result = "accept" ->
                    /\ tempStructures' = Append(tempStructures, randomIndex)
                    /\ lineIndex' = lineIndex + 1
                    /\ attempts' = 0
                    /\ UNCHANGED <<pc, error>>
              [] result = "reject" ->
                    /\ attempts' = attempts + 1
                    /\ UNCHANGED <<pc, tempStructures, lineIndex, error>>
              [] result = "TypeError" ->
                    /\ pc' = "failed"
                    /\ error' = "TypeError"
                    /\ UNCHANGED <<tempStructures, lineIndex, attempts>>
    /\ UNCHANGED <<options, fallbacks, workingStructures, lines>>
    /\ UNCHANGED <<tables, selectorVars, utilVars>>

\* The loop ran out of attempts: the first structure is returned.
SelectFallback ==
    /\ pc = "select"
    /\ lineIndex <= options.linesPerParagraph
    /\ attempts = maxAttempts
    /\ tempStructures' = Append(tempStructures, 0)
    /\ fallbacks' = fallbacks \cup {lineIndex}
    /\ lineIndex' = lineIndex + 1
    /\ attempts' = 0
    /\ UNCHANGED <<pc, options, workingStructures, lines, error>>
    /\ UNCHANGED <<tables, selectorVars, utilVars>>

\* The second loop of createStructure writing the processed elements back
\* into the selected templates of the table.
ExpandStructuresInPlace ==
    /\ pc = "select"
    /\ lineIndex > options.linesPerParagraph
    /\ IF \E k \in 1..Len(tempStructures) : ~Defined(getSentenceStructures, tempStructures[k])
       THEN /\ pc' = "failed"
            /\ error' = "TypeError"
            /\ UNCHANGED <<workingStructures, sentenceStructures>>
       ELSE /\ pc' = "render"
            /\ workingStructures' =
                   expandLoop(getSentenceStructures, tempStructures, options, 1, 1, <<>>)
            /\ sentenceStructures' =
                   [k \in DOMAIN sentenceStructures |->
                       IF \E l \in 1..Len(tempStructures) : tempStructures[l] = k - 1
                       THEN [sentenceStructures[k] EXCEPT
                                !.elements = SubSeq(processStructureElements(
                                    sentenceStructures[k], FALSE, options.rhymeScheme).elements,
                                    1, 27)]
                       ELSE sentenceStructures[k]]
            /\ UNCHANGED error
    /\ UNCHANGED <<options, lineIndex, attempts, tempStructures, fallbacks, lines>>
    /\ UNCHANGED <<nouns, adjectives, intransitiveVerbs, transitiveVerbs, interjections,
                   specialWords, selectorVars, utilVars>>

\* The second loop of createStructure; it fails on an undefined structure.
ExpandStructures ==
    /\ pc = "select"
    /\ lineIndex > options.linesPerParagraph
    /\ IF \E k \in 1..Len(tempStructures) : ~Defined(getSentenceStructures, tempStructures[k])
       THEN /\ pc' = "failed"
            /\ error' = "TypeError"
            /\ UNCHANGED workingStructures
       ELSE /\ pc' = "render"
            /\ workingStructures' =
                   expandLoop(getSentenceStructures, tempStructures, options, 1, 1, <<>>)
            /\ UNCHANGED error
    /\ UNCHANGED <<options, lineIndex, attempts, tempStructures, fallbacks, lines>>
    /\ UNCHANGED <<tables, selectorVars, utilVars>>

\* generatePoetry renders the next working structure.
GenerateLine ==
    /\ pc = "render"
    /\ Len(lines) < Len(workingStructures)
    /\ \E outcome \in generateLine(workingStructures[Len(lines) + 1], options) :
        IF outcome.threw
        THEN /\ pc' = "failed"
             /\ error' = outcome.error
             /\ UNCHANGED lines
        ELSE /\ lines' = Append(lines, outcome.value)
             /\ UNCHANGED <<pc, error>>
    /\ UNCHANGED <<options, lineIndex, attempts, tempStructures, fallbacks, workingStructures>>
    /\ UNCHANGED <<tables, selectorVars, utilVars>>

\* generatePoetry returns the poem.
ReturnPoem ==
    /\ pc = "render"
    /\ Len(lines) = Len(workingStructures)
    /\ pc' = "done"
    /\ UNCHANGED <<options, lineIndex, attempts, tempStructures, fallbacks,
                   workingStructures, lines, error>>
    /\ UNCHANGED <<tables, selectorVars, utilVars>>

\* The caller has the poem or the error; the engine takes the next request.
NextRequest ==
    /\ pc \in {"done", "failed"}
    /\ pc' = "idle"
    /\ options' = NoOptions
    /\ lineIndex' = 0
    /\ attempts' = 0
    /\ tempStructures' = <<>>
    /\ fallbacks' = {}
    /\ workingStructures' = <<>>
    /\ lines' = <<>>
    /\ error' = ""
    /\ UNCHANGED <<tables, selectorVars, utilVars>>

Init ==
    /\ \E lexicon \in {RegularLexicon, PoorLexicon} :
        /\ nouns = lexicon.nouns
        /\ intransitiveVerbs = lexicon.intransitiveVerbs
        /\ adjectives = lexicon.adjectives
        /\ transitiveVerbs = lexicon.transitiveVerbs
        /\ interjections = lexicon.interjections
        /\ specialWords = lexicon.specialWords
    /\ sentenceStructures \in StructureTables
    /\ InitSelector
    /\ InitEngine
    /\ InitUtil

Next ==
    \/ GeneratePoetry
    \/ SelectDraw
    \/ SelectFallback
    \/ ExpandStructures
    \/ GenerateLine
    \/ ReturnPoem
    \/ NextRequest

Spec == Init /\ [][Next]_vars

----------------------------------------------------------------------------
(* Properties of generatePoetry (checked under Spec)                       *)

EndsWith(s, suffix) ==
    /\ Len(suffix) <= Len(s)
    /\ SubSeq(s, Len(s) - Len(suffix) + 1, Len(s)) = suffix

\* C1: a poem that generatePoetry returns has exactly
\* paragraphCount * linesPerParagraph lines.
C1_LineCount ==
    pc = "done" => Len(lines) = options.paragraphCount * options.linesPerParagraph

\* A returned poem of three stanzas of two lines.
C1_WitnessThreeByTwo ==
    pc = "done" /\ options.paragraphCount = 3 /\ options.linesPerParagraph = 2

C3_EndsWithPunctuation ==
    pc = "done" =>
        \A i \in 1..Len(lines) : EndsWith(lines[i], workingStructures[i].punctuation)

\* A returned poem with a line that ends with a punctuation of two characters.
C3_WitnessLongPunctuation ==
    /\ pc = "done"
    /\ \E i \in 1..Len(lines) :
           /\ Len(workingStructures[i].punctuation) = 2
           /\ Len(lines[i]) > 2

\* C4: createStructure selects exactly linesPerParagraph templates and
\* returns the working structures in stanza-major order: the structure of
\* line position l of every stanza is the expansion of base template l, the
\* same in every stanza whatever its rhyme flag.
C4_SameTemplatesEveryStanza ==
    pc \in {"render", "done"} =>
        /\ Len(tempStructures) = options.linesPerParagraph
        /\ Len(workingStructures) = options.paragraphCount * options.linesPerParagraph
        /\ \A s \in 1..options.paragraphCount, l \in 1..options.linesPerParagraph :
               LET base == At(sentenceStructures, tempStructures[l])
                   here == workingStructures[(s - 1) * options.linesPerParagraph + l]
               IN  /\ here = workingStructures[l]
                   /\ here = processStructureElements(base, TRUE, options.rhymeScheme)
                   /\ here.punctuation = base.punctuation
                   /\ here.compoundStructureCount = base.compoundStructureCount

\* Three stanzas (the second one's rhyme flag is off, the others' on) whose
\* second line is an expanded compound template, the first line another one.
C4_WitnessFlagsDiffer ==
    /\ pc = "render"
    /\ options.paragraphCount = 3 /\ options.linesPerParagraph = 2
    /\ shouldLineRhyme(1, 3) /\ ~shouldLineRhyme(2, 3)
    /\ tempStructures[1] # tempStructures[2]
    /\ workingStructures[4].elements[3] = DV

\* C12: the selection of one line template ends after at most maxAttempts
\* rejected draws, a position that ran out of attempts holds the first
\* template of the table, and the selection never raises an error.
C12_SelectionNeverRaises ==
    /\ attempts <= maxAttempts
    /\ \A l \in fallbacks : tempStructures[l] = 0
    /\ ~(pc = "failed" /\ Len(tempStructures) < options.linesPerParagraph)

\* C13: a request with useRhyme and no rhyme scheme runs as the same
\* request without useRhyme does: on the same table and the same drawn
\* templates every draw is judged as for a position that needs no rhyme,
\* the working structures are the same, and every line has the same
\* possible outcomes (the same words, the same errors).
C13_NoSchemeRunsAsNoRhyme ==
    (pc # "idle" /\ options.useRhyme /\ options.rhymeScheme = {}) =>
        LET plain == [options EXCEPT !.useRhyme = FALSE]
        IN  /\ (pc = "select" /\ lineIndex <= options.linesPerParagraph) =>
                   \A randomIndex \in RandomIndices(Len(getSentenceStructures)) :
                       draw(options.style, getSentenceStructures, randomIndex,
                            shouldLineRhyme(lineIndex, options.linesPerParagraph),
                            options.rhymeScheme)
                       = draw(plain.style, getSentenceStructures, randomIndex,
                              FALSE, plain.rhymeScheme)
            /\ pc \in {"render", "done"} =>
                   workingStructures =
                       expandLoop(getSentenceStructures, tempStructures, plain, 1, 1, <<>>)
            /\ (pc = "render" /\ Len(lines) < Len(workingStructures)) =>
                   generateLine(workingStructures[Len(lines) + 1], options)
                   = generateLine(workingStructures[Len(lines) + 1], plain)

\* A poem with a plain intransitive verb was returned for a request with
\* useRhyme and no scheme.
C13_WitnessVerbLine ==
    /\ pc = "done" /\ options.useRhyme /\ options.rhymeScheme = {}
    /\ \E i \in 1..Len(lines) :
           /\ <<"D", "d">> \in Range(workingStructures[i].elements)
           /\ lines[i] = <<"a", ",", "fei", "!", "!">>

\* The acceptance rule of a base template for a line position.
TooLongForQuiet(structure) ==
    options.style = "quiet" /\ structure.elements[10] # <<>>

WrongRhyme(structure, position) ==
    /\ shouldLineRhyme(position, options.linesPerParagraph)
    /\ options.rhymeScheme # {} /\ options.rhymeScheme # {<<>>}
    /\ structure.compoundStructureCount = 0
    /\ structure.limitedRhyme \notin options.rhymeScheme \cup {<<"E">>}

\* C19: a base template accepted by a draw (not the fallback after
\* maxAttempts rejections) has an empty 10th slot in quiet style and, at a
\* position that needs rhyme with a scheme given, if its
\* compoundStructureCount is 0, a limitedRhyme equal to the scheme or to 'E';
\* a draw is rejected only when the table holds a template that breaks this
\* rule, so a template with compoundStructureCount > 0 is never rejected
\* for its rhyme.
C19_AcceptedTemplatesFit ==
    /\ \A position \in 1..Len(tempStructures) :
          (position \notin fallbacks
             /\ Defined(getSentenceStructures, tempStructures[position])) =>
              LET structure == At(getSentenceStructures, tempStructures[position])
              IN  ~TooLongForQuiet(structure) /\ ~WrongRhyme(structure, position)
    /\ (pc = "select" /\ attempts > 0) =>
          \E k \in 1..Len(getSentenceStructures) :
              \/ TooLongForQuiet(getSentenceStructures[k])
              \/ WrongRhyme(getSentenceStructures[k], lineIndex)

\* Quiet style with rhyme scheme a, both lines need rhyme: the expandable
\* template (limitedRhyme 'E') was accepted for line 1 and the compound
\* template, whose limitedRhyme is not a, for line 2.
C19_WitnessAcceptedDraws ==
    /\ sentenceStructures = <<StructureA, StructureB, StructureC>>
    /\ options.style = "quiet" /\ options.rhymeScheme = {a}
    /\ options.linesPerParagraph = 2
    /\ tempStructures = <<1, 2>>
    /\ fallbacks = {}

\* C26: no step of a generation request, successful or failed, changes a
\* loaded table: the six lexicon tables and the template table keep their
\* records, field values and order, and the elements of a selected base
\* template are the same after its expansion.
C26_TablesNeverChange ==
    [][/\ nouns' = nouns /\ adjectives' = adjectives
       /\ intransitiveVerbs' = intransitiveVerbs /\ transitiveVerbs' = transitiveVerbs
       /\ interjections' = interjections /\ specialWords' = specialWords
       /\ sentenceStructures' = sentenceStructures]_vars

\* A poem was returned whose first line comes from an expanded template;
\* the template in the table still holds the slot 'Dd'.
C26_WitnessExpandedTemplateKept ==
    /\ pc = "done"
    /\ \E j \in 1..30 : workingStructures[1].elements[j] = DV
    /\ At(sentenceStructures, tempStructures[1]).limitedRhyme = E
    /\ \E j \in 1..27 : At(sentenceStructures, tempStructures[1]).elements[j] = <<"D", "d">>

\* C29: template selection does not depend on useRhyme.  Whatever useRhyme
\* is, a draw is rejected exactly when the drawn template breaks the
\* acceptance rule for the line position and the scheme, and the working
\* structures are those of the same request with useRhyme negated; in word
\* selection useRhyme is applied to every line alike: the outcomes of a line
\* are those of the same working structure in a request of one line.
C29_SelectionIgnoresUseRhyme ==
    LET negated == [options EXCEPT !.useRhyme = ~options.useRhyme]
        oneLine == [options EXCEPT !.paragraphCount = 1, !.linesPerParagraph = 1]
    IN  /\ (pc = "select" /\ lineIndex <= options.linesPerParagraph) =>
              \A randomIndex \in 0..(Len(sentenceStructures) - 1) :
                  LET result == draw(options.style, getSentenceStructures, randomIndex,
                                     shouldLineRhyme(lineIndex, options.linesPerParagraph),
                                     options.rhymeScheme)
                      structure == sentenceStructures[randomIndex + 1]
                  IN  /\ result \in {"accept", "reject"}
                      /\ result = "reject" <=>
                            (TooLongForQuiet(structure) \/ WrongRhyme(structure, lineIndex))
        /\ pc \in {"render", "done"} =>
              workingStructures =
                  expandLoop(getSentenceStructures, tempStructures, negated, 1, 1, <<>>)
        /\ (pc = "render" /\ Len(lines) < Len(workingStructures)) =>
              generateLine(workingStructures[Len(lines) + 1], options)
              = generateLine(workingStructures[Len(lines) + 1], oneLine)

\* A request with a scheme and without useRhyme: a draw has been rejected
\* in bold style, where only the rhyme check rejects.
C29_WitnessRejectedWithoutUseRhyme ==
    /\ pc = "select"
    /\ ~options.useRhyme /\ options.rhymeScheme = {a}
    /\ options.style = "bold"
    /\ attempts > 0

----------------------------------------------------------------------------
(* WordSelector.normalizeRhymeScheme (src/src/services/data-service.ts)    *)

normalizeRhymeSchemeChained(rhymeText) ==
    LET normalizedRhyme == trim(toLowerCase(rhymeText))
    IN  CASE normalizedRhyme \in {<<"o">>, <<"u", "o">>} -> <<"e">>
          [] normalizedRhyme = <<"u", "i">> -> <<"e", "i">>
          [] normalizedRhyme \in {<<"i", "n">>, <<"u", "n">>, <<"v", "n">>} -> <<"e", "n">>
          [] normalizedRhyme = <<"i", "n", "g">> -> <<"e", "n", "g">>
          [] normalizedRhyme = <<"v", "e">> -> <<"i", "u">>
          [] normalizedRhyme = <<"i", "u">> -> <<"o", "u">>
          [] normalizedRhyme = <<"z">> -> <<"r">>
          [] OTHER -> normalizedRhyme

normalizeRhymeScheme(rhymeText) ==
    LET normalizedRhyme == trim(toLowerCase(rhymeText))
    IN  CASE normalizedRhyme \in {<<"o">>, <<"u", "o">>} -> <<"e">>
          [] normalizedRhyme = <<"u", "i">> -> <<"e", "i">>
          [] normalizedRhyme \in {<<"i", "n">>, <<"u", "n">>, <<"v", "n">>} -> <<"e", "n">>
          [] normalizedRhyme = <<"i", "n", "g">> -> <<"e", "n", "g">>
          [] normalizedRhyme = <<"v", "e">> -> <<"i", "e">>
          [] normalizedRhyme = <<"i", "u">> -> <<"o", "u">>
          [] normalizedRhyme = <<"z">> -> <<"r">>
          [] OTHER -> normalizedRhyme

\* The characters of the strings passed in: the letters of the aliases,
\* upper-case letters and white space.
RhymeCharacters == {"o", "u", "i", "n", "g", "v", "e", "z", "U", "O", " "}

\* The engine is idle over a loaded lexicon.
InitIdle ==
    /\ nouns = RegularLexicon.nouns
    /\ adjectives = RegularLexicon.adjectives
    /\ intransitiveVerbs = RegularLexicon.intransitiveVerbs
    /\ transitiveVerbs = RegularLexicon.transitiveVerbs
    /\ interjections = RegularLexicon.interjections
    /\ specialWords = RegularLexicon.specialWords
    /\ sentenceStructures = <<StructureA>>
    /\ InitSelector
    /\ InitEngine

\* A caller normalizes its string (again).
NormalizeRhymeScheme ==
    /\ Len(rhymeArgs) < MaxNormalizations
    /\ rhymeArgs' = Append(rhymeArgs, rhyme)
    /\ rhyme' = normalizeRhymeScheme(rhyme)
    /\ UNCHANGED notRhymeVars

InitRhyme ==
    /\ InitIdle
    /\ NoSaveCall /\ configFile = 0
    /\ NoCacheCall
    /\ NoCliCall
    /\ NoAgeCall /\ NoLineCall /\ NoExpandCall /\ NoRenderCall
    /\ rhyme \in SeqUpTo(RhymeCharacters, MaxRhymeLength)
    /\ rhymeArgs = <<>>

NextRhyme == NormalizeRhymeScheme

SpecRhyme == InitRhyme /\ [][NextRhyme]_vars

\* C11: normalizeRhymeScheme is idempotent: normalizing the result of a
\* call again returns that result unchanged, for aliases, upper-case and
\* padded inputs alike.
C11_NormalizeIdempotent ==
    Len(rhymeArgs) >= 2 =>
        /\ rhymeArgs[2] = normalizeRhymeScheme(rhymeArgs[1])
        /\ rhyme = rhymeArgs[2]

\* An upper-case, padded alias has been normalized twice.
C11_WitnessPaddedAlias ==
    /\ rhymeArgs = << <<" ", "U", "O">>, <<"e">> >>
    /\ rhyme = <<"e">>

----------------------------------------------------------------------------
(* PoetryEngine.savePoetry and DataService.updatePoemNumber                *)

Digits == <<"0", "1", "2", "3", "4", "5", "6", "7", "8", "9">>

\* Number.prototype.toString of a non-negative integer
RECURSIVE numberToString(_)
numberToString(n) ==
    IF n < 10
    THEN <<Digits[n + 1]>>
    ELSE numberToString(n \div 10) \o <<Digits[(n % 10) + 1]>>

\* String.prototype.padStart with a one-character filler
padStart(text, targetLength, padCharacter) ==
    IF Len(text) >= targetLength
    THEN text
    ELSE [k \in 1..(targetLength - Len(text)) |-> padCharacter] \o text

\* const poemNumber = config.poemNumber.toString().padStart(6, '0')
poemNumberText(poemNumber) == padStart(numberToString(poemNumber), 6, "0")

\* const filename = `cp${poemNumber}.txt`
saveFilename(poemNumber) ==
    <<"c", "p">> \o poemNumberText(poemNumber) \o <<".", "t", "x", "t">>

Stars == [k \in 1..38 |-> "*"]

\* The content savePoetry builds, as the sequence of its text lines (each
\* ends with a line feed).
saveContent(poemLines, title, poemNumber) ==
    <<Stars,
      title,
      <<"(", "zuo", "pin", "di">> \o poemNumberText(poemNumber) \o <<"hao", ")">>,
      Stars>> \o poemLines

\* path.join(outputPath, filename)
join(outputPath, filename) == outputPath \o <<"/">> \o filename

\* this.config.poemNumber += 1
updatePoemNumberKept(poemNumber) == poemNumber

updatePoemNumber(poemNumber) == poemNumber + 1

\* getConfig: the cached configuration, read from config.json when null.
getConfig == IF config = {} THEN configFile ELSE CHOOSE n \in config : TRUE

\* writeFileSync(fullPath, content): the file is created or replaced.
writeFile(fullPath, content) ==
    {f \in files : f[1] # fullPath} \cup {<<fullPath, content>>}

SavePoems == {<< <<"hua">> >>, << <<"a">>, <<"fei">> >>}
SaveTitles == {<<"t">>}
OutputPaths == {{}, {EmptyString}, {<<"o", "u", "t">>}}
StartNumbers == {0, 7, 999999}

SaveEnded(c) == savePc[c] \in {"done", "failed"}

\* savePoetry is entered: the configuration is read and the content
\* built; without an output path the content is returned.
SavePoetry(c) ==
    /\ savePc[c] = "idle"
    /\ \E poemLines \in SavePoems, title \in SaveTitles, outputPath \in OutputPaths :
        /\ saveArgs' = [saveArgs EXCEPT ![c] = <<poemLines, title, outputPath>>]
        /\ saveAt' = [saveAt EXCEPT ![c] = getConfig]
        /\ config' = {getConfig}
        /\ IF Truthy(outputPath)
           THEN /\ savePc' = [savePc EXCEPT ![c] = "write"]
                /\ UNCHANGED <<saveResult, saveOrder>>
           ELSE /\ savePc' = [savePc EXCEPT ![c] = "done"]
                /\ saveResult' = [saveResult EXCEPT
                                     ![c] = saveContent(poemLines, title, getConfig)]
                /\ saveOrder' = Append(saveOrder, c)
    /\ UNCHANGED <<configFile, files>>
    /\ UNCHANGED notSaveVars

\* After the imports: writeFileSync succeeds, and updatePoemNumber runs up
\* to its first await: the in-memory number is incremented.
SaveWrite(c) ==
    /\ savePc[c] = "write"
    /\ LET poemLines == saveArgs[c][1]
           title == saveArgs[c][2]
           outputPath == CHOOSE o \in saveArgs[c][3] : TRUE
           fullPath == join(outputPath, saveFilename(saveAt[c]))
       IN  files' = writeFile(fullPath, saveContent(poemLines, title, saveAt[c]))
    /\ config' = {updatePoemNumber(getConfig)}
    /\ savePc' = [savePc EXCEPT ![c] = "persist"]
    /\ UNCHANGED <<configFile, saveArgs, saveAt, saveResult, saveOrder>>
    /\ UNCHANGED notSaveVars

\* writeFileSync throws (no such directory): the call is rejected.
SaveWriteFails(c) ==
    /\ savePc[c] = "write"
    /\ savePc' = [savePc EXCEPT ![c] = "failed"]
    /\ saveOrder' = Append(saveOrder, c)
    /\ UNCHANGED <<config, configFile, files, saveArgs, saveAt, saveResult>>
    /\ UNCHANGED notSaveVars

\* updatePoemNumber writes config.json (a failure is only logged) and
\* savePoetry returns the path of the poem file.
SavePersist(c) ==
    /\ savePc[c] = "persist"
    /\ \E written \in BOOLEAN :
        configFile' = IF written THEN getConfig ELSE configFile
    /\ savePc' = [savePc EXCEPT ![c] = "done"]
    /\ saveResult' = [saveResult EXCEPT
                         ![c] = join(CHOOSE o \in saveArgs[c][3] : TRUE,
                                     saveFilename(saveAt[c]))]
    /\ saveOrder' = Append(saveOrder, c)
    /\ UNCHANGED <<config, files, saveArgs, saveAt>>
    /\ UNCHANGED notSaveVars

\* The calls run one after another: a call starts when every other call
\* has ended.
OneAfterAnother(c) ==
    /\ \A d \in SaveCalls \ {c} : savePc[d] = "idle" \/ SaveEnded(d)
    /\ \A d \in SaveCalls : d < c => SaveEnded(d)

InitSave ==
    /\ InitIdle
    /\ NoRhymeCall
    /\ NoCacheCall
    /\ NoCliCall
    /\ NoAgeCall /\ NoLineCall /\ NoExpandCall /\ NoRenderCall
    /\ NoSaveCall
    /\ configFile \in StartNumbers

NextSave ==
    \E c \in SaveCalls :
        \/ OneAfterAnother(c) /\ SavePoetry(c)
        \/ SaveWrite(c)
        \/ SaveWriteFails(c)
        \/ SavePersist(c)

SpecSave == InitSave /\ [][NextSave]_vars

\* The call wrote a poem file: it was given an output path and returned.
FileSaved(c) == savePc[c] = "done" /\ Truthy(saveArgs[c][3])

\* C14: with the calls run one after another, a call with an output path
\* writes the file cp<n>.txt for the poem number n it started with and
\* leaves the in-memory number at n + 1; a call without an output path
\* returns the formatted content and leaves the number unchanged; the file
\* saves use consecutive numbers.
C14_SavesNumberedInTurn ==
    /\ \A c \in SaveCalls :
           savePc[c] = "done" =>
               LET content == saveContent(saveArgs[c][1], saveArgs[c][2], saveAt[c])
               IN  IF Truthy(saveArgs[c][3])
                   THEN /\ saveResult[c] = join(CHOOSE o \in saveArgs[c][3] : TRUE,
                                                 <<"c", "p">> \o poemNumberText(saveAt[c])
                                                     \o <<".", "t", "x", "t">>)
                        /\ <<saveResult[c], content>> \in files
                   ELSE /\ saveResult[c] = content
                        /\ \A i \in 1..Len(saveArgs[c][1]) :
                               saveArgs[c][1][i] \in Range(saveResult[c])
    /\ (saveOrder # <<>> /\ \A c \in SaveCalls : savePc[c] = "idle" \/ SaveEnded(c)) =>
           LET last == saveOrder[Len(saveOrder)]
           IN  config = {IF FileSaved(last) THEN saveAt[last] + 1 ELSE saveAt[last]}
    /\ \A i, j \in 1..Len(saveOrder) :
           (i < j /\ FileSaved(saveOrder[i]) /\ FileSaved(saveOrder[j])) =>
               saveAt[saveOrder[j]] - saveAt[saveOrder[i]]
               = Cardinality({k \in i..(j - 1) : FileSaved(saveOrder[k])})

\* Two file saves in a row, from number 999999 on, with a content-only call
\* between them.
C14_WitnessConsecutiveFiles ==
    /\ saveOrder = <<1, 2, 3>>
    /\ FileSaved(1) /\ savePc[2] = "done" /\ ~FileSaved(2) /\ FileSaved(3)
    /\ saveResult[1] = <<"o", "u", "t", "/", "c", "p",
                          "9", "9", "9", "9", "9", "9", ".", "t", "x", "t">>
    /\ saveResult[3] = <<"o", "u", "t", "/", "c", "p",
                          "1", "0", "0", "0", "0", "0", "0", ".", "t", "x", "t">>
    /\ config = {1000001}

\* Two calls of savePoetry that may overlap: a call is suspended at its
\* awaits (the imports, updatePoemNumber) and the other call runs meanwhile.
OverlappingCalls == {c \in SaveCalls : c <= 2}

NextOverlap ==
    \E c \in OverlappingCalls :
        \/ SavePoetry(c)
        \/ SaveWrite(c)
        \/ SaveWriteFails(c)
        \/ SavePersist(c)

SpecOverlap == InitSave /\ [][NextOverlap]_vars

\* Both calls were given an output path and have returned.
BothSaved == \A c \in OverlappingCalls : FileSaved(c)

\* C30: two savePoetry calls with an output path that both complete write
\* to different file names and together raise the poem number by 2, also
\* when the second starts before the first has finished.
C30_OverlappingSavesDistinct ==
    BothSaved =>
        /\ saveFilename(saveAt[1]) # saveFilename(saveAt[2])
        /\ saveResult[1] # saveResult[2]
        /\ \E first \in OverlappingCalls :
              /\ \A c \in OverlappingCalls : saveAt[first] <= saveAt[c]
              /\ config = {saveAt[first] + 2}

----------------------------------------------------------------------------
(* DataService: the singleton and its cached tables                        *)

\* The content of a data file.
fileContent(name) ==
    CASE name = "nouns" -> nouns
      [] name = "adjectives" -> adjectives
      [] name = "intransitiveVerbs" -> intransitiveVerbs
      [] name = "transitiveVerbs" -> transitiveVerbs
      [] name = "interjections" -> interjections
      [] name = "sentenceStructures" -> sentenceStructures
      [] name = "specialWords" -> specialWords
      [] name = "config" -> configFile

\* The field behind a getter.
cacheOf(name) == IF name = "config" THEN config ELSE cached[name]

\* if (!this.nouns): the field is null; a loaded array is truthy even
\* when it is empty, and so is the configuration object.
isNull(field) == field = {}

\* loadJsonFile / loadConfigFile
loadJsonFile(name) ==
    IF name \in present
    THEN Return(fileContent(name))
    ELSE Throw("CannotLoadDataFile", name)

\* clearCache: the table fields after the call.
clearCacheKeepNouns == [name \in TableNames |-> IF name = "nouns" THEN cached[name] ELSE {}]

clearCache == [name \in TableNames |-> {}]

\* DataService.getInstance()
GetInstance ==
    /\ instance' = IF instance = {} THEN {Cardinality(returnedInstances) + 1} ELSE instance
    /\ returnedInstances' = returnedInstances \cup instance'
    /\ UNCHANGED <<config, cached, present, reads, lastGet>>
    /\ UNCHANGED notCacheVars

\* getNouns() .. getSpecialWords(), getConfig() on the instance
GetTable(name) ==
    /\ instance # {}
    /\ IF ~isNull(cacheOf(name))
       THEN /\ lastGet' = <<name, TRUE, FALSE, Return(CHOOSE t \in cacheOf(name) : TRUE)>>
            /\ UNCHANGED <<config, cached, reads>>
       ELSE LET loaded == loadJsonFile(name)
            IN  IF loaded.threw
                THEN /\ lastGet' = <<name, FALSE, FALSE, loaded>>
                     /\ UNCHANGED <<config, cached, reads>>
                ELSE /\ lastGet' = <<name, FALSE, TRUE, loaded>>
                     /\ reads' = [reads EXCEPT ![name] = @ + 1]
                     /\ IF name = "config"
                        THEN config' = {loaded.value} /\ UNCHANGED cached
                        ELSE cached' = [cached EXCEPT ![name] = {loaded.value}]
                             /\ UNCHANGED config
    /\ UNCHANGED <<instance, returnedInstances, present>>
    /\ UNCHANGED notCacheVars

\* clearCache() on the instance
ClearCache ==
    /\ instance # {}
    /\ cached' = clearCache
    /\ config' = {}
    /\ reads' = [name \in FileNames |-> 0]
    /\ lastGet' = <<"clearCache">>
    /\ UNCHANGED <<instance, returnedInstances, present>>
    /\ UNCHANGED notCacheVars

\* A lexicon with an empty table, one template, and at most one data file
\* missing.
InitCache ==
    /\ nouns = PoorLexicon.nouns
    /\ adjectives = PoorLexicon.adjectives
    /\ intransitiveVerbs = PoorLexicon.intransitiveVerbs
    /\ transitiveVerbs = PoorLexicon.transitiveVerbs
    /\ interjections = PoorLexicon.interjections
    /\ specialWords = PoorLexicon.specialWords
    /\ sentenceStructures = <<StructureA>>
    /\ InitSelector
    /\ InitEngine
    /\ NoRhymeCall
    /\ NoCliCall
    /\ NoAgeCall /\ NoLineCall /\ NoExpandCall /\ NoRenderCall
    /\ NoSaveCall
    /\ configFile = 7
    /\ instance = {}
    /\ returnedInstances = {}
    /\ cached = [name \in TableNames |-> {}]
    /\ present \in {FileNames} \cup {FileNames \ {name} : name \in FileNames}
    /\ reads = [name \in FileNames |-> 0]
    /\ lastGet = <<>>

NextCache ==
    \/ GetInstance
    \/ \E name \in FileNames : GetTable(name)
    \/ ClearCache

SpecCache == InitCache /\ [][NextCache]_vars

\* C15: getInstance always returns the same instance; a data file is read
\* at most once between two clearCache calls: a get on a loaded table
\* returns the cached table without reading, a get on an empty cache reads
\* the file, and clearCache empties every cache.
C15_ReadOncePerClear ==
    /\ Cardinality(returnedInstances) <= 1
    /\ \A name \in FileNames : reads[name] <= 1
    /\ Len(lastGet) = 4 =>
           /\ lastGet[2] => (~lastGet[3] /\ ~lastGet[4].threw)
           /\ (~lastGet[2] /\ lastGet[1] \in present) =>
                  (lastGet[3] /\ lastGet[4] = Return(fileContent(lastGet[1])))
           /\ ~lastGet[4].threw => cacheOf(lastGet[1]) = {lastGet[4].value}
    /\ lastGet = <<"clearCache">> =>
           \A name \in FileNames : isNull(cacheOf(name)) /\ reads[name] = 0

\* The empty special-word table is served from the cache while the nouns
\* are not loaded.
C15_WitnessCachedEmptyTable ==
    /\ lastGet = <<"specialWords", TRUE, FALSE, Return(<<>>)>>
    /\ reads["specialWords"] = 1
    /\ isNull(cacheOf("nouns"))
    /\ Cardinality(returnedInstances) = 1

----------------------------------------------------------------------------
(* The command line (src/unnamed/part_000: parseArguments, runCommandMode) *)

OptStyle == <<"-", "-", "s", "t", "y", "l", "e">>
OptS == <<"-", "s">>
OptParagraphs == <<"-", "-", "p", "a", "r", "a", "g", "r", "a", "p", "h", "s">>
OptP == <<"-", "p">>
OptLines == <<"-", "-", "l", "i", "n", "e", "s">>
OptL == <<"-", "l">>
OptRhyme == <<"-", "-", "r", "h", "y", "m", "e">>
OptR == <<"-", "r">>
OptTitle == <<"-", "-", "t", "i", "t", "l", "e">>
OptT == <<"-", "t">>
OptOutput == <<"-", "-", "o", "u", "t", "p", "u", "t">>
OptO == <<"-", "o">>
OptInteractive == <<"-", "-", "i", "n", "t", "e", "r", "a", "c", "t", "i", "v", "e">>
OptI == <<"-", "i">>
\* Options of the README that parseArguments has no case for.
OptStanzas == <<"-", "-", "s", "t", "a", "n", "z", "a", "s">>
OptN == <<"-", "n">>
OptRhymeEnding == <<"-", "-", "r", "h", "y", "m", "e", "-", "e", "n", "d", "i", "n", "g">>
OptE == <<"-", "e">>
Two == <<"2">>
Ao == <<"a", "o">>
Quiet == <<"q", "u", "i", "e", "t">>

\* A number n is written <<n>>, so that NaN (<<>>) compares with numbers.
NaN == <<>>

\* args[i], 0-based; undefined ({}) past the end.
argAt(args, i) == IF i + 1 \in DOMAIN args THEN {args[i + 1]} ELSE {}

isDigit(c) == \E k \in 1..Len(Digits) : Digits[k] = c
digitValue(c) == (CHOOSE k \in 1..Len(Digits) : Digits[k] = c) - 1

\* The value of the longest prefix of decimal digits, with the value so far.
RECURSIVE digitsValue(_, _)
digitsValue(text, value) ==
    IF text # EmptyString /\ isDigit(Head(text))
    THEN digitsValue(Tail(text), 10 * value + digitValue(Head(text)))
    ELSE value

\* Number.parseInt(string): white space and a sign are skipped, the leading
\* digits are read; NaN without a digit, and for undefined.
parseInt(arg) ==
    IF arg = {} THEN NaN
    ELSE LET text == trimStart(CHOOSE t \in arg : TRUE)
             negative == text # EmptyString /\ Head(text) = "-"
             signed == text # EmptyString /\ Head(text) \in {"-", "+"}
             digits == IF signed THEN Tail(text) ELSE text
         IN  IF digits = EmptyString \/ ~isDigit(Head(digits))
             THEN NaN
             ELSE IF negative THEN <<0 - digitsValue(digits, 0)>>
                  ELSE <<digitsValue(digits, 0)>>

startsWith(text, prefix) ==
    Len(prefix) <= Len(text) /\ SubSeq(text, 1, Len(prefix)) = prefix

OptHelp == <<"-", "-", "h", "e", "l", "p">>
OptH == <<"-", "h">>

\* CliOptions; an absent field is {}.
NoCliOptions ==
    [lines |-> {}, rhyme |-> {}, rhymeScheme |-> {}, style |-> {}, title |-> {},
     paragraphs |-> {}, output |-> {}, interactive |-> {}]

\* The loop of parseArguments from index i on.
RECURSIVE parseLoop(_, _, _)
parseLoop(args, i, parsed) ==
    IF i >= Len(args) THEN parsed
    ELSE LET arg == args[i + 1]
         IN  CASE arg \in {OptStyle, OptS} ->
                    parseLoop(args, i + 2, [parsed EXCEPT !.style = argAt(args, i + 1)])
               [] arg \in {OptParagraphs, OptP} ->
                    parseLoop(args, i + 2,
                              [parsed EXCEPT !.paragraphs = {parseInt(argAt(args, i + 1))}])
               [] arg \in {OptLines, OptL} ->
                    parseLoop(args, i + 2,
                              [parsed EXCEPT !.lines = {parseInt(argAt(args, i + 1))}])
               [] arg \in {OptRhyme, OptR} ->
                    IF i + 1 < Len(args) /\ ~startsWith(args[i + 2], <<"-">>)
                    THEN parseLoop(args, i + 2,
                                   [parsed EXCEPT !.rhyme = {TRUE},
                                                  !.rhymeScheme = {args[i + 2]}])
                    ELSE parseLoop(args, i + 1, [parsed EXCEPT !.rhyme = {TRUE}])
               [] arg \in {OptTitle, OptT} ->
                    parseLoop(args, i + 2, [parsed EXCEPT !.title = argAt(args, i + 1)])
               [] arg \in {OptOutput, OptO} ->
                    parseLoop(args, i + 2, [parsed EXCEPT !.output = argAt(args, i + 1)])
               [] arg \in {OptInteractive, OptI} ->
                    parseLoop(args, i + 1, [parsed EXCEPT !.interactive = {TRUE}])
               [] arg \in {OptHelp, OptH} -> "exit"
               [] OTHER -> parseLoop(args, i + 1, parsed)

parseArguments(args) == parseLoop(args, 0, NoCliOptions)

\* options.paragraphs || 1: undefined, NaN and 0 are falsy.
orDefault(field, default) ==
    IF field = {} \/ field = {NaN} \/ field = {<<0>>}
    THEN default
    ELSE (CHOOSE value \in field : TRUE)[1]

\* The generation options runCommandMode builds.
generationOptions(parsed) ==
    [rhymeScheme |-> IF Truthy(parsed.rhymeScheme)
                     THEN {normalizeRhymeScheme(CHOOSE r \in parsed.rhymeScheme : TRUE)}
                     ELSE {},
     style |-> IF parsed.style = {Quiet} THEN "quiet" ELSE "bold",
     paragraphCount |-> orDefault(parsed.paragraphs, 1),
     linesPerParagraph |-> orDefault(parsed.lines, 4),
     useRhyme |-> parsed.rhyme = {TRUE}]

CliTokens == {OptStanzas, OptN, OptP, OptRhyme, OptR, OptRhymeEnding, OptE, OptS,
              Two, Ao, Quiet}

\* main: const options = parseArguments(args)
ParseArguments ==
    /\ cliOptions = {}
    /\ cliOptions' = {parseArguments(cliArgs)}
    /\ UNCHANGED <<cliArgs, cliRequest>>
    /\ UNCHANGED notCliVars

\* main: command mode is taken with arguments and without --interactive;
\* runCommandMode builds the options it passes to generatePoetry.
RunCommandMode ==
    /\ cliRequest = {}
    /\ \E parsed \in cliOptions :
        /\ ~(parsed.interactive = {TRUE} \/ Len(cliArgs) = 0)
        /\ cliRequest' = {generationOptions(parsed)}
    /\ UNCHANGED <<cliArgs, cliOptions>>
    /\ UNCHANGED notCliVars

InitCli ==
    /\ InitIdle
    /\ NoRhymeCall
    /\ NoSaveCall /\ configFile = 0
    /\ NoCacheCall
    /\ NoAgeCall /\ NoLineCall /\ NoExpandCall /\ NoRenderCall
    /\ cliArgs \in SeqUpTo(CliTokens, MaxArgs)
    /\ cliOptions = {}
    /\ cliRequest = {}

NextCli == ParseArguments \/ RunCommandMode

SpecCli == InitCli /\ [][NextCli]_vars

\* C16: in command-line mode '--stanzas N' ('-n N') sets the number of
\* stanzas passed to generatePoetry, '--rhyme --rhyme-ending X' ('-e X')
\* enables rhyme with scheme X, and without options the request is bold,
\* 1 stanza, 4 lines per stanza, no rhyme.
C16_DocumentedOptions ==
    \A request \in cliRequest :
        /\ cliArgs \in {<<OptStanzas, Two>>, <<OptN, Two>>} =>
               request.paragraphCount = 2
        /\ cliArgs \in {<<OptRhyme, OptRhymeEnding, Ao>>, <<OptRhyme, OptE, Ao>>} =>
               (request.useRhyme /\ request.rhymeScheme = {Ao})
        /\ Range(cliArgs) \subseteq {Two, Ao, Quiet} =>
               /\ request.style = "bold"
               /\ request.paragraphCount = 1
               /\ request.linesPerParagraph = 4
               /\ ~request.useRhyme
               /\ request.rhymeScheme = {}

----------------------------------------------------------------------------
(* PoetryEngine.getPoetAge                                                 *)

\* new Date(2002, 3, 4): year, month (0-based), day of month
birthDate == <<2002, 3, 4>>

getFullYear(date) == date[1]
getMonth(date) == date[2]
getDate(date) == date[3]

Sui == <<"sui">>
GeYue == <<"ge", "yue">>
Tian == <<"tian">>
AgeTail == <<"da", "de", "ji", "suan", "ji", "shi", "ren", "huo", "niao",
             "jiang", "wei", "nin", "ge", "chang", "!">>

getPoetAge(today) ==
    LET ageYears == getFullYear(today) - getFullYear(birthDate)
        ageMonths == getMonth(today) - getMonth(birthDate)
        ageDays == getDate(today) - getDate(birthDate)
    IN  IF ageYears # 0
        THEN numberToString(ageYears) \o Sui \o <<"de">> \o SubSeq(AgeTail, 3, Len(AgeTail))
        ELSE IF ageMonths # 0
             THEN numberToString(ageMonths) \o GeYue \o AgeTail
             ELSE numberToString(ageDays) \o Tian \o AgeTail

isLeapYear(year) == (year % 4 = 0 /\ year % 100 # 0) \/ year % 400 = 0

daysInMonth(year, month) ==
    CASE month = 1 -> IF isLeapYear(year) THEN 29 ELSE 28
      [] month \in {3, 5, 8, 10} -> 30
      [] OTHER -> 31

\* date1 is not after date2.
notAfter(date1, date2) ==
    \/ date1[1] < date2[1]
    \/ date1[1] = date2[1] /\ date1[2] < date2[2]
    \/ date1[1] = date2[1] /\ date1[2] = date2[2] /\ date1[3] <= date2[3]

\* The dates of the clock: from the birth date to the end of LastYear.
ClockDates ==
    {date \in (2002..LastYear) \X (0..11) \X (1..31) :
        date[3] <= daysInMonth(date[1], date[2]) /\ notAfter(birthDate, date)}

GetPoetAge ==
    /\ ageInfo = <<>>
    /\ ageInfo' = getPoetAge(now)
    /\ UNCHANGED now
    /\ UNCHANGED notAgeVars

InitAge ==
    /\ InitIdle
    /\ NoRhymeCall
    /\ NoSaveCall /\ configFile = 0
    /\ NoCacheCall
    /\ NoCliCall
    /\ NoLineCall /\ NoExpandCall /\ NoRenderCall
    /\ now \in ClockDates
    /\ ageInfo = <<>>

NextAge == GetPoetAge

SpecAge == InitAge /\ [][NextAge]_vars

\* One full year, one full month has passed since the birth date.
fullYearElapsed == notAfter(<<2003, 3, 4>>, now)
fullMonthElapsed == notAfter(<<2002, 4, 4>>, now)

\* The unit of the text returned.
ReportsIn(unit) ==
    \E k \in 1..Len(ageInfo) :
        /\ \A j \in 1..k : isDigit(ageInfo[j])
        /\ SubSeq(ageInfo, k + 1, k + Len(unit)) = unit

\* C17: getPoetAge reports years only when a full year has passed since
\* 2002-04-04; before that it reports months, or days when less than a
\* month has passed.
C17_AgeInRightUnit ==
    ageInfo # <<>> =>
        /\ ReportsIn(Sui) => fullYearElapsed
        /\ ~fullYearElapsed =>
               IF fullMonthElapsed THEN ReportsIn(GeYue) ELSE ReportsIn(Tian)

----------------------------------------------------------------------------
(* StructureGenerator.shouldLineRhyme on its own                           *)

ShouldLineRhyme ==
    /\ lineAnswer = {}
    /\ lineAnswer' = {shouldLineRhyme(lineQuery[1], lineQuery[2])}
    /\ UNCHANGED lineQuery
    /\ UNCHANGED notLineVars

\* The positions of a poem of totalLines lines, for every totalLines.
LineQueries ==
    {query \in (1..MaxTotalLines) \X (1..MaxTotalLines) : query[1] <= query[2]}

InitLine ==
    /\ InitIdle
    /\ NoRhymeCall
    /\ NoSaveCall /\ configFile = 0
    /\ NoCacheCall
    /\ NoCliCall
    /\ NoAgeCall /\ NoExpandCall /\ NoRenderCall
    /\ lineQuery \in LineQueries
    /\ lineAnswer = {}

NextLine == ShouldLineRhyme

SpecLine == InitLine /\ [][NextLine]_vars

EvenNumbers == {2 * k : k \in 1..MaxTotalLines}
OddNumbers == {2 * k - 1 : k \in 1..MaxTotalLines}

\* C18: for 1 <= position <= total, shouldLineRhyme(position, total) is
\* true exactly for position 1 and the even positions when total is even,
\* and exactly for the odd positions when total is odd.
C18_RhymePositions ==
    lineAnswer # {} =>
        LET position == lineQuery[1]
            total == lineQuery[2]
        IN  /\ total \in EvenNumbers =>
                (lineAnswer = {TRUE} <=> (position = 1 \/ position \in EvenNumbers))
            /\ total \in OddNumbers =>
                (lineAnswer = {TRUE} <=> position \in OddNumbers)

\* The first line of a poem of four lines rhymes, the third does not.
C18_WitnessFirstOfFour ==
    /\ lineQuery = <<1, 4>>
    /\ lineAnswer = {TRUE}

----------------------------------------------------------------------------
(* StructureGenerator.processStructureElements on its own                  *)

\* The slot codes of the templates: the plain intransitive verb in its four
\* casings, three nouns in legacy casings and a literal.
SlotCodes ==
    {DD, <<"D", "d">>, <<"d", "D">>, <<"d", "d">>,
     <<"M", "m">>, <<"M", "r">>, <<"m", "m">>, Zhi}

\* Templates that use all 27 slots J1..J27: 'Dd' at some of the positions
\* 1, 14, 27, a literal elsewhere.
FullTemplates ==
    {convertSentenceStructures(
         DbfStructure(limited, 0, <<".">>,
                      [i \in 1..27 |-> IF i \in verbs THEN <<"D", "d">> ELSE Zhi])) :
        limited \in {E, a}, verbs \in SUBSET {1, 14, 27}}

\* Templates as the converter writes them: up to MaxSlots slots, left-packed,
\* and the full ones.
ExpandTemplates ==
    {convertSentenceStructures(DbfStructure(limited, 0, <<".">>, slots)) :
        limited \in {E, a, EmptyString}, slots \in SeqUpTo(SlotCodes, MaxSlots)}
    \cup FullTemplates

ProcessStructureElements ==
    /\ expandArgs # <<>>
    /\ expandResult = {}
    /\ expandResult' = {processStructureElements(expandArgs[1], expandArgs[2], {})}
    /\ UNCHANGED expandArgs
    /\ UNCHANGED notExpandVars

InitExpand ==
    /\ InitIdle
    /\ NoRhymeCall
    /\ NoSaveCall /\ configFile = 0
    /\ NoCacheCall
    /\ NoCliCall
    /\ NoAgeCall /\ NoLineCall /\ NoRenderCall
    /\ expandArgs \in ExpandTemplates \X BOOLEAN
    /\ expandResult = {}

NextExpand == ProcessStructureElements

SpecExpand == InitExpand /\ [][NextExpand]_vars

\* The slots of a sequence of elements: the elements before the first ''.
slotsOf(elements) ==
    SubSeq(elements, 1,
           IF \E i \in 1..Len(elements) : elements[i] = <<>>
           THEN (CHOOSE i \in 1..Len(elements) :
                    elements[i] = <<>> /\ \A k \in 1..(i - 1) : elements[k] # <<>>) - 1
           ELSE Len(elements))

\* The working structure is the template with every slot satisfying Verb
\* replaced by DV, 'zhe', DO when limitedRhyme is 'E', the other slots kept
\* in their order (in their own or in upper case), and nothing else.
ExpandsExactly(Verb(_)) ==
    \A working \in expandResult :
        LET structure == expandArgs[1]
            slots == slotsOf(structure.elements)
            out == slotsOf(working.elements)
            expanded(i) == structure.limitedRhyme = <<"E">> /\ Verb(slots[i])
            offset(i) == i + 2 * Cardinality({k \in 1..(i - 1) : expanded(k)})
        IN  /\ Len(out) = Len(slots) + 2 * Cardinality({k \in 1..Len(slots) : expanded(k)})
            /\ \A i \in 1..Len(slots) :
                  IF expanded(i)
                  THEN SubSeq(out, offset(i), offset(i) + 2)
                          = << <<"D", "V">>, <<"zhe">>, <<"D", "O">> >>
                  ELSE out[offset(i)] \in {slots[i], toUpperCase(slots[i])}

\* C20 as stated: every slot that is DD in any casing is expanded when
\* limitedRhyme is 'E', the other slots keep their order, the slot count
\* changes in no other way, and nothing is expanded when limitedRhyme is
\* not 'E'.
C20_ExpandsEveryCasing ==
    ExpandsExactly(LAMBDA slot : toUpperCase(slot) = <<"D", "D">>)

\* C20, amended: the slots expanded when limitedRhyme is 'E' are exactly
\* those written 'Dd'; the other slots (DD, dD and dd among them) keep their
\* order, the slot count changes in no other way, and nothing is expanded
\* when limitedRhyme is not 'E'.
C20_ExpandsDdOnly ==
    ExpandsExactly(LAMBDA slot : slot = <<"D", "d">>)

\* A template 'dd Dd zhi' with limitedRhyme 'E' became DD DV zhe DO zhi.
C20_WitnessOneOfTwoVerbs ==
    /\ expandArgs # <<>>
    /\ expandArgs[1].limitedRhyme = <<"E">>
    /\ slotsOf(expandArgs[1].elements) = << <<"d", "d">>, <<"D", "d">>, <<"zhi">> >>
    /\ \E working \in expandResult :
          slotsOf(working.elements)
              = << <<"D", "D">>, <<"D", "V">>, <<"zhe">>, <<"D", "O">>, <<"zhi">> >>

\* All non-empty elements first, then only ''.
leftPacked(elements) ==
    \A i \in 1..Len(elements) :
        elements[i] = <<>> => \A k \in i..Len(elements) : elements[k] = <<>>

\* C21: for a template with 27 left-packed slots, whatever number of them
\* expandable, the working structure has exactly 30 elements, left-packed.
C21_ThirtyElements ==
    \A working \in expandResult :
        Len(slotsOf(expandArgs[1].elements)) = 27 =>
            /\ Len(working.elements) = 30
            /\ leftPacked(working.elements)

\* The literal fragments of a sequence of slots, the connective of an
\* expanded compound left out.
literalsOf(slots) ==
    SelectSeq(slots, LAMBDA slot : ~isPartOfSpeech(slot) /\ slot # <<"zhe">>)

\* C22: in a working structure every slot that denotes a part of speech is
\* one of the 11 canonical upper-case tags, whatever casing the template
\* used, and the literal fragments of the template appear unchanged.
C22_CanonicalTags ==
    \A working \in expandResult :
        LET out == slotsOf(working.elements)
        IN  /\ \A k \in 1..Len(out) :
                  isPartOfSpeech(out[k]) => out[k] \in Range(partOfSpeechTags)
            /\ literalsOf(out) = literalsOf(slotsOf(expandArgs[1].elements))

----------------------------------------------------------------------------
(* PoetryEngine.generateLine, one pass of its loop at a time               *)

ZZ == <<"Z", "Z">>

\* The slot codes of the templates rendered: an expandable verb, a
\* resultative verb, a plain verb, a noun in legacy casing, a code that is
\* no tag, and a literal.
RenderCodes == {<<"D", "d">>, DO, DD, <<"M", "m">>, ZZ, Zhi}

RenderTemplates ==
    {convertSentenceStructures(DbfStructure(limited, 0, <<".">>, slots)) :
        limited \in {E, a}, slots \in SeqUpTo(RenderCodes, MaxSlots)}
    \cup {template \in FullTemplates : template.limitedRhyme = E}

\* One line, without rhyme or with rhyme a.
RenderRequests ==
    {request \in Requests :
        /\ request.style = "bold"
        /\ request.paragraphCount = 1 /\ request.linesPerParagraph = 1
        /\ request.useRhyme <=> request.rhymeScheme # {}}

\* The working structure createStructure hands to generateLine.
renderStructure ==
    processStructureElements(renderArgs[1], renderArgs[2].useRhyme, renderArgs[2].rhymeScheme)

renderElement == elementAt(renderStructure, elementIndex)

\* The element is a part of speech: a word is selected for it.
RenderTag ==
    /\ renderPc = "walk"
    /\ elementIndex < 27
    /\ renderElement # EmptyString
    /\ isPartOfSpeech(renderElement)
    /\ LET partOfSpeech == normalizePartOfSpeech(renderElement)
       IN  /\ examined' = Append(examined, elementIndex)
           /\ warnings' = IF unknownPartOfSpeech(renderElement)
                          THEN Append(warnings, renderElement)
                          ELSE warnings
           /\ selectorCalls' = Append(selectorCalls, <<elementIndex, partOfSpeech>>)
           /\ \E word \in selectWordForElement(partOfSpeech, renderArgs[2]) :
                 IF word.threw
                 THEN /\ renderPc' = "failed"
                      /\ UNCHANGED <<renderLine, elementIndex>>
                 ELSE /\ renderLine' = renderLine \o word.value
                      /\ elementIndex' = elementIndex + skipAfter(partOfSpeech) + 1
                      /\ UNCHANGED renderPc
    /\ UNCHANGED renderArgs
    /\ UNCHANGED notRenderVars

\* The element is a mark or a modifier: it is added as it is.
RenderLiteral ==
    /\ renderPc = "walk"
    /\ elementIndex < 27
    /\ renderElement # EmptyString
    /\ ~isPartOfSpeech(renderElement)
    /\ examined' = Append(examined, elementIndex)
    /\ renderLine' = renderLine \o renderElement
    /\ elementIndex' = elementIndex + 1
    /\ UNCHANGED <<renderArgs, renderPc, selectorCalls, warnings>>
    /\ UNCHANGED notRenderVars

\* The loop ends: the punctuation is added and the line trimmed.
RenderEnd ==
    /\ renderPc = "walk"
    /\ elementIndex >= 27 \/ renderElement = EmptyString
    /\ examined' = IF elementIndex < 27 THEN Append(examined, elementIndex) ELSE examined
    /\ renderLine' = trim(renderLine \o renderStructure.punctuation)
    /\ renderPc' = "done"
    /\ UNCHANGED <<renderArgs, elementIndex, selectorCalls, warnings>>
    /\ UNCHANGED notRenderVars

InitRender ==
    /\ \E lexicon \in {RegularLexicon, UnrhymedLexicon} :
        /\ nouns = lexicon.nouns
        /\ intransitiveVerbs = lexicon.intransitiveVerbs
        /\ adjectives = lexicon.adjectives
        /\ transitiveVerbs = lexicon.transitiveVerbs
        /\ interjections = lexicon.interjections
        /\ specialWords = lexicon.specialWords
    /\ sentenceStructures = <<StructureA>>
    /\ InitSelector
    /\ InitEngine
    /\ NoRhymeCall
    /\ NoSaveCall /\ configFile = 0
    /\ NoCacheCall
    /\ NoCliCall
    /\ NoAgeCall /\ NoLineCall /\ NoExpandCall
    /\ renderArgs \in RenderTemplates \X RenderRequests
    /\ renderPc = "walk"
    /\ elementIndex = 0
    /\ renderLine = <<>>
    /\ examined = <<>>
    /\ selectorCalls = <<>>
    /\ warnings = <<>>

NextRender == RenderTag \/ RenderLiteral \/ RenderEnd

SpecRender == InitRender /\ [][NextRender]_vars

\* C23: the walk of generateLine starts at index 0; after a slot whose
\* normalized tag is DV or DO the next slot examined is three further, after
\* any other slot one further; the walk stops at the first examined slot
\* that is empty or when the index reaches 27.
C23_WalkOfTheLine ==
    /\ \A k \in 1..Len(examined) :
          /\ examined[k] < 27
          /\ examined[k] = IF k = 1 THEN 0
                           ELSE LET before == elementAt(renderStructure, examined[k - 1])
                                IN  IF /\ isPartOfSpeech(before)
                                       /\ normalizePartOfSpeech(before)
                                              \in {<<"D", "V">>, <<"D", "O">>}
                                    THEN examined[k - 1] + 3
                                    ELSE examined[k - 1] + 1
          /\ k < Len(examined) => elementAt(renderStructure, examined[k]) # <<>>
    /\ renderPc = "done" =>
          \/ /\ examined # <<>>
             /\ elementAt(renderStructure, examined[Len(examined)]) = <<>>
          \/ elementIndex >= 27
    /\ renderPc = "walk" =>
          \A k \in 1..Len(examined) : elementAt(renderStructure, examined[k]) # <<>>

\* 'Dd zhi' with limitedRhyme 'E' was rendered: the slots at 0, 3 and the
\* empty one at 4 were examined.
C23_WitnessSkipsCompound ==
    /\ renderPc = "done"
    /\ renderArgs[1].limitedRhyme = E
    /\ slotsOf(renderArgs[1].elements) = << <<"D", "d">>, <<"zhi">> >>
    /\ examined = <<0, 3, 4>>

\* C24: a slot code shaped like a tag that is no tag and no legacy variant
\* ('ZZ') is rendered by selecting a word with the noun tag MM, with a
\* warning, and the rendering of the line does not fail.
C24_UnknownCodeIsANoun ==
    /\ \A k \in 1..Len(examined) :
          elementAt(renderStructure, examined[k]) = <<"Z", "Z">> =>
              /\ \E call \in 1..Len(selectorCalls) :
                    selectorCalls[call] = <<examined[k], <<"M", "M">> >>
              /\ \E w \in 1..Len(warnings) : warnings[w] = <<"Z", "Z">>
    /\ (\E i \in 1..27 : renderArgs[1].elements[i] = <<"Z", "Z">>) => renderPc # "failed"

\* The intransitive verbs whose vowel is the scheme of the request.
rhymingVerbs ==
    {i \in 1..Len(intransitiveVerbs) : intransitiveVerbs[i].vowel \in renderArgs[2].rhymeScheme}

\* selectWord for DD with needsRhyme and the scheme of the request draws
\* from the verbs of that vowel only, and throws when there is none.
RhymedVerbDraw ==
    \A o \in selectWord(WordSelectionContext(DD, TRUE, renderArgs[2].rhymeScheme)) :
        IF rhymingVerbs = {}
        THEN o.threw /\ o.error = "EmptyWordList"
        ELSE /\ ~o.threw
             /\ \E i \in rhymingVerbs :
                   o.value = SelectSeq(intransitiveVerbs[i].word, LAMBDA c : c # "/")

\* The request asks for rhyme with a scheme no intransitive verb has.
NoVerbRhymes ==
    /\ renderArgs[2].useRhyme
    /\ renderArgs[2].rhymeScheme \notin {{}, {<<>>}}
    /\ rhymingVerbs = {}

\* C27 as stated: for tag DD with needsRhyme and a scheme, selectWord draws
\* only from the intransitive verbs of that vowel and raises the 'empty
\* word list' error when there is none, so with useRhyme and such a scheme
\* no line that holds a DD slot is rendered.
C27_AnyVerbSlotFails ==
    renderArgs[2].rhymeScheme \notin {{}, {<<>>}} =>
        /\ RhymedVerbDraw
        /\ (NoVerbRhymes
              /\ \E i \in 1..27 :
                    /\ isPartOfSpeech(elementAt(renderStructure, i - 1))
                    /\ normalizePartOfSpeech(elementAt(renderStructure, i - 1)) = <<"D", "D">>
                    /\ \A k \in 1..i : elementAt(renderStructure, k - 1) # <<>>)
             => renderPc # "done"

\* C27, amended: selectWord behaves as stated, and with useRhyme and such a
\* scheme the line fails with the 'empty word list' error as soon as the
\* walk reaches a DD slot; a DD slot that the walk skips (one of the two
\* slots after a DV or DO slot) is not selected for and does not fail.
C27_ReachedVerbSlotFails ==
    renderArgs[2].rhymeScheme \notin {{}, {<<>>}} =>
        /\ RhymedVerbDraw
        /\ NoVerbRhymes =>
              /\ \A call \in 1..Len(selectorCalls) :
                    selectorCalls[call][2] = <<"D", "D">> =>
                        renderPc = "failed" /\ call = Len(selectorCalls)
              /\ renderPc = "done" =>
                    \A k \in 1..Len(examined) :
                        LET element == elementAt(renderStructure, examined[k])
                        IN  ~(isPartOfSpeech(element)
                              /\ normalizePartOfSpeech(element) = <<"D", "D">>)

\* With rhyme a and no verb of that vowel, the line 'Mm DD' failed at its
\* second slot.
C27_WitnessFailsAtVerb ==
    /\ NoVerbRhymes
    /\ renderPc = "failed"
    /\ slotsOf(renderArgs[1].elements) = << <<"M", "m">>, <<"D", "D">> >>
    /\ selectorCalls = << <<0, <<"M", "M">> >>, <<1, <<"D", "D">> >> >>

\* The template slots that processStructureElements expanded, and the index
\* (0-based) in the working structure of the DV slot each one became.
expandedSlots ==
    {i \in 1..Len(slotsOf(renderArgs[1].elements)) :
        /\ slotsOf(renderArgs[1].elements)[i] = <<"D", "d">>
        /\ renderArgs[1].limitedRhyme = <<"E">>}

compoundAt(i) == (i - 1) + 2 * Cardinality({k \in expandedSlots : k < i})

\* The calls made for the three slots of the compound of template slot i.
callsFor(i) ==
    {call \in 1..Len(selectorCalls) :
        selectorCalls[call][1] \in compoundAt(i)..(compoundAt(i) + 2)}

\* The compound of template slot i is rendered by one call, for DV at its
\* first slot; 'zhe' and DO are not examined, and the slot examined next is
\* the one that followed the verb slot in the template.
RenderedByOneCall(i) ==
    /\ \A call \in callsFor(i) : selectorCalls[call] = <<compoundAt(i), <<"D", "V">> >>
    /\ Cardinality(callsFor(i)) = 1
    /\ \A k \in 1..Len(examined) :
          /\ examined[k] \notin {compoundAt(i) + 1, compoundAt(i) + 2}
          /\ (examined[k] = compoundAt(i) /\ k < Len(examined)) =>
                /\ examined[k + 1] = compoundAt(i) + 3
                /\ elementAt(renderStructure, examined[k + 1])
                      \in {elementAt(renderArgs[1], i),
                           toUpperCase(elementAt(renderArgs[1], i)),
                           <<"D", "V">>}

====
